---- MODULE Spec2Model ----
(***************************************************************************)
(* Verification model of the rag-101 ingestion pipeline.                   *)
(*                                                                         *)
(* Chunk Store      src/src/ingestion/storage.py, src/src/db/db_manager.py *)
(* Ingestion engine src/src/ingestion/workflow.py                          *)
(* Retrieval        src/src/retrieval/*.py                                 *)
(* Generation       src/src/generation/service.py                          *)
(*                                                                         *)
(* The store is PostgreSQL reached through SQLAlchemy sessions: every      *)
(* awaited statement of save_documents is one action, writes of a session  *)
(* stay private to it until its commit, and a statement that needs a row   *)
(* or an index entry held by another open session waits for that session.  *)
(***************************************************************************)
EXTENDS Integers, FiniteSets, Sequences, TLC

\* ------------------------------------------------------------------ bounds
MaxChunks == 2        \* longest chunk list handed to save
MaxSaves == 3         \* direct calls of save_documents in one behaviour of SpecStore

\* ------------------------------------------------------------ value spaces
Paths == {"a.txt", "b.pdf"}
Hashes == {"h1", "h2", "h3", "h4"}
Missing == "missing"                     \* Path.exists() is False
NoDoc == [id |-> 0, file_path |-> "", file_hash |-> ""]

\* One SQLAlchemy session per caller of save_documents.  The per-file
\* workflow with id "process-<hash>" uses the slot named by its hash.
Sessions == Hashes

VARIABLES
    docs,       \* committed rows of source_documents
    chunks,     \* committed rows of chunks
    nextId,     \* next value of the source_documents.id sequence
    tx,         \* per session: position inside save_documents and its private writes
    saves,      \* number of direct calls of save_documents so far
    disk,       \* per path: content hash of the file on disk, or Missing
    diskChanges,\* number of changes made to files on disk so far
    wf,         \* per child workflow id: DBOS workflow record and position
    ck,         \* per child workflow id: recorded step outputs (checkpoints)
    run,        \* per folder run: position and locals of ingest_folder_workflow
    crashes,    \* number of process crashes so far
    search,     \* the call of search_similar_chunks in progress, if any
    rt,         \* the call of retrieve in progress, if any
    gen,        \* the call of generate_answer in progress, if any
    text,       \* the call of a text function in progress: its input and outputs
    reranker    \* the module global _reranker_model and the constructions made

storeVars == <<docs, chunks, nextId, tx, saves>>
wfVars == <<disk, diskChanges, wf, ck, run, crashes>>
queryVars == <<search, rt, gen, text, reranker>>
vars == <<docs, chunks, nextId, tx, saves, disk, diskChanges, wf, ck, run, crashes, search, rt, gen, text, reranker>>

\* ----------------------------------------------------------------- chunks
\* An id that leaves the chunk ordinal out.
ChunkIdWithoutIndex(file_hash, index) == <<file_hash, 0>>

\* generate_chunk_id: sha256(f"{file_hash}:{index}")[:16].  The digest is
\* represented by the pair it is computed from (collision freedom of SHA-256).
generate_chunk_id(file_hash, index) == <<file_hash, index>>

\* generate_chunk_id of the plain ingestion script: the same expression.
script_generate_chunk_id(file_hash, index) == <<file_hash, index>>

\* The ChunkCreate list a caller builds for a file: ordinals 0..n-1.
ChunkCreates(file_hash, n) ==
    { [chunk_id |-> generate_chunk_id(file_hash, i), index |-> i] : i \in 0..(n - 1) }

\* The list process_file of the ingestion script builds: for i, ... in enumerate(...).
ScriptChunkCreates(file_hash, n) ==
    { [chunk_id |-> script_generate_chunk_id(file_hash, i), index |-> i] : i \in 0..(n - 1) }

\* Chunk(chunk_id=c.chunk_id, document_id=doc_id, ...)
DbChunks(creates, doc_id) ==
    { [chunk_id |-> c.chunk_id, document_id |-> doc_id, chunk_index |-> c.index] : c \in creates }

\* ---------------------------------------------------------------- session
IdleTx == [phase |-> "idle", path |-> "", hash |-> "", n |-> 0, creates |-> {}, docId |-> 0,
           seenHash |-> "", insDoc |-> FALSE, updDoc |-> FALSE,
           snap |-> {}, del |-> {}, rowcount |-> 0, exc |-> "none"]

DocsAt(path) == { d \in docs : d.file_path = path }

\* select(SourceDocument).where(file_path == path) ... scalar_one_or_none()
LookupDoc(path) == IF DocsAt(path) = {} THEN NoDoc ELSE CHOOSE d \in DocsAt(path) : TRUE

\* async with db_manager.get_session() as session: (entry of save_documents)
BeginSave(s, path, hash, n) ==
    tx' = [tx EXCEPT ![s] = [IdleTx EXCEPT !.phase = "lookup", !.path = path,
                                           !.hash = hash, !.n = n,
                                           !.creates = ChunkCreates(hash, n)]]

\* save_documents without its "existing_hash == file_info.file_hash: return".
SaveLookupNoIdempotency(s) ==
    /\ tx[s].phase = "lookup"
    /\ LET existing_doc == LookupDoc(tx[s].path) IN
       tx' = [tx EXCEPT ![s] =
                IF existing_doc # NoDoc
                THEN [@ EXCEPT !.phase = "delete", !.docId = existing_doc.id,
                               !.seenHash = existing_doc.file_hash, !.updDoc = TRUE]
                ELSE [@ EXCEPT !.phase = "insert"]]
    /\ UNCHANGED <<docs, chunks, nextId, saves>>
    /\ UNCHANGED wfVars
    /\ UNCHANGED queryVars

\* 1. Check existing record; 2. the three-way branch on it.
SaveLookup(s) ==
    /\ tx[s].phase = "lookup"
    /\ LET existing_doc == LookupDoc(tx[s].path) IN
       tx' = [tx EXCEPT ![s] =
                IF existing_doc # NoDoc
                THEN IF existing_doc.file_hash = tx[s].hash
                     THEN [@ EXCEPT !.phase = "noop", !.docId = existing_doc.id,
                                    !.seenHash = existing_doc.file_hash]
                     ELSE [@ EXCEPT !.phase = "delete", !.docId = existing_doc.id,
                                    !.seenHash = existing_doc.file_hash, !.updDoc = TRUE]
                ELSE [@ EXCEPT !.phase = "insert"]]
    /\ UNCHANGED <<docs, chunks, nextId, saves>>
    /\ UNCHANGED wfVars
    /\ UNCHANGED queryVars

\* delete(Chunk).where(Chunk.document_id == existing_doc.id): the statement
\* sees the rows committed when it starts ...
SaveDeleteStart(s) ==
    /\ tx[s].phase = "delete"
    /\ tx' = [tx EXCEPT ![s].phase = "deleting",
                        ![s].snap = { c \in chunks : c.document_id = tx[s].docId }]
    /\ UNCHANGED <<docs, chunks, nextId, saves>>
    /\ UNCHANGED wfVars
    /\ UNCHANGED queryVars

\* save_documents without the DELETE of the old chunks.
SaveDeleteFinishKeepsRows(s) ==
    /\ tx[s].phase = "deleting"
    /\ tx' = [tx EXCEPT ![s].phase = "commit", ![s].snap = {}]
    /\ UNCHANGED <<docs, chunks, nextId, saves>>
    /\ UNCHANGED wfVars
    /\ UNCHANGED queryVars

\* ... waits for rows another open session has deleted, and removes those of
\* its rows that still exist once they are free.
SaveDeleteFinish(s) ==
    /\ tx[s].phase = "deleting"
    /\ \A t \in Sessions \ {s} : tx[t].del \cap tx[s].snap = {}
    /\ tx' = [tx EXCEPT ![s].phase = "commit", ![s].del = tx[s].snap \cap chunks,
                        ![s].rowcount = Cardinality(tx[s].snap \cap chunks), ![s].snap = {}]
    /\ UNCHANGED <<docs, chunks, nextId, saves>>
    /\ UNCHANGED wfVars
    /\ UNCHANGED queryVars

\* source_documents without the unique index on file_path.
PathTakenNever(path) == FALSE

\* UNIQUE(file_path) of source_documents.
PathTaken(path) == DocsAt(path) # {}

\* session.add(new_doc); await session.flush(): the INSERT draws the next id,
\* waits for an uncommitted row of the same path, and fails on a committed one;
\* the failure is inside the try block and becomes a StorageException, and
\* get_session rolls the session back.
SaveFlushInsert(s) ==
    /\ tx[s].phase = "insert"
    /\ \A t \in Sessions \ {s} : ~(tx[t].insDoc /\ tx[t].path = tx[s].path)
    /\ nextId' = nextId + 1
    /\ tx' = [tx EXCEPT ![s] =
                IF PathTaken(tx[s].path)
                THEN [@ EXCEPT !.phase = "raised", !.exc = "StorageException"]
                ELSE [@ EXCEPT !.phase = "commit", !.insDoc = TRUE, !.docId = nextId]]
    /\ UNCHANGED <<docs, chunks, saves>>
    /\ UNCHANGED wfVars
    /\ UNCHANGED queryVars

\* UNIQUE(chunk_id) of chunks, checked against the rows the session leaves.
ChunkIdTaken(s, new) ==
    \E c \in new : \E e \in chunks \ tx[s].del : e.chunk_id = c.chunk_id

\* The rows a committing session writes.
DocsAfter(s) ==
    IF tx[s].insDoc
    THEN docs \cup {[id |-> tx[s].docId, file_path |-> tx[s].path, file_hash |-> tx[s].hash]}
    ELSE { IF d.id = tx[s].docId THEN [d EXCEPT !.file_hash = tx[s].hash] ELSE d : d \in docs }

\* session.add_all(db_chunks), leaving the try block, then get_session's
\* await session.commit(): the flush of the chunk INSERTs (and of the UPDATE
\* of the tracking row) happens here, outside save_documents' try/except.
\* A failure rolls back and re-raises the driver's exception unchanged.
SaveCommit(s) ==
    /\ tx[s].phase = "commit"
    /\ LET new == DbChunks(tx[s].creates, tx[s].docId) IN
       /\ \A t \in Sessions \ {s} : \A c \in new : \A e \in tx[t].del : e.chunk_id # c.chunk_id
       /\ IF ChunkIdTaken(s, new)
          THEN /\ tx' = [tx EXCEPT ![s] = [@ EXCEPT !.phase = "raised", !.exc = "IntegrityError",
                                                    !.del = {}, !.insDoc = FALSE]]
               /\ UNCHANGED <<docs, chunks, saves>>
          ELSE /\ docs' = DocsAfter(s)
               /\ chunks' = (chunks \ tx[s].del) \cup new
               /\ tx' = [tx EXCEPT ![s] = [@ EXCEPT !.phase = "ok", !.del = {}, !.insDoc = FALSE]]
    /\ UNCHANGED <<nextId, saves>>
    /\ UNCHANGED wfVars
    /\ UNCHANGED queryVars

\* return  # IDEMPOTENCY HIT, then the commit of a session that wrote nothing.
SaveNoop(s) ==
    /\ tx[s].phase = "noop"
    /\ tx' = [tx EXCEPT ![s].phase = "ok"]
    /\ UNCHANGED <<docs, chunks, nextId, saves>>
    /\ UNCHANGED wfVars
    /\ UNCHANGED queryVars

\* ------------------------------------------------ direct callers of save
\* await save_documents(file_info, chunks) from outside the workflow (the plain
\* ingestion script, tests).  Callers that overlap in time hold different
\* content hashes, as the per-file workflows do, so the session slot names
\* the hash; the chunk list is any list of ids derived from that hash.
DirectSave(s, path, n) ==
    /\ tx[s].phase = "idle"
    /\ saves < MaxSaves
    /\ saves' = saves + 1
    /\ BeginSave(s, path, s, n)
    /\ UNCHANGED <<docs, chunks, nextId>>
    /\ UNCHANGED wfVars
    /\ UNCHANGED queryVars

\* save_documents has returned or raised to its caller.
DirectReturn(s) ==
    /\ tx[s].phase \in {"ok", "raised"}
    /\ tx' = [tx EXCEPT ![s] = IdleTx]
    /\ UNCHANGED <<docs, chunks, nextId, saves>>
    /\ UNCHANGED wfVars
    /\ UNCHANGED queryVars

\* ------------------------------------------------------------------ bounds
MaxRuns == 2          \* folder workflows started in one behaviour
MaxDiskChanges == 1   \* changes made to the files on disk in one behaviour
MaxCrashes == 1       \* process crashes in one behaviour

\* ------------------------------------------------------- program constants
worker_concurrency == 3     \* Queue("file_processing_queue", worker_concurrency=3)
max_attempts == 3           \* @DBOS.step(retries_allowed=True, max_attempts=3, ...)

Runs == 1..MaxRuns
WorkflowIds == Hashes       \* child_id = f"process-{file_dict['file_hash']}"
NoCount == 0 - 1            \* key absent from a result dictionary / event not set
NoResult == [status |-> "none", file |-> "", reason |-> "", chunks |-> NoCount]

\* ------------------------------------------------------------ files on disk
\* Someone outside the process writes, replaces or deletes a file.
DiskChange(p, v) ==
    /\ diskChanges < MaxDiskChanges
    /\ v # disk[p]
    /\ disk' = [disk EXCEPT ![p] = v]
    /\ diskChanges' = diskChanges + 1
    /\ UNCHANGED <<wf, ck, run, crashes>>
    /\ UNCHANGED storeVars
    /\ UNCHANGED queryVars

\* get_file_hash(file_path): SHA-256 of the bytes now on disk.
get_file_hash(p) == disk[p]

\* discover_files: one FileInfo per file found under the folder.
discover_files == { [file_path |-> p, file_hash |-> get_file_hash(p)] : p \in {q \in DOMAIN disk : disk[q] # Missing} }

\* os.walk order is not specified: every ordering of the discovered files.
Orderings(S) ==
    { f \in [1..Cardinality(S) -> S] : \A i, j \in 1..Cardinality(S) : f[i] = f[j] => i = j }

\* ------------------------------------------------------ per-file workflow
NoCk == [check |-> "none", load |-> NoCount, chunk |-> NoCount, embed |-> "none", save |-> "none"]
NoWf == [status |-> "none", path |-> "", pc |-> "none", attempts |-> 0, recoveries |-> 0,
         result |-> NoResult, exc |-> "none"]

Running == { h \in WorkflowIds : wf[h].status = "running" }

\* A queue worker that ignores worker_concurrency.
DequeueUnbounded(h) ==
    /\ wf[h].status = "enqueued"
    /\ wf' = [wf EXCEPT ![h].status = "running"]
    /\ UNCHANGED <<disk, diskChanges, ck, run, crashes>>
    /\ UNCHANGED storeVars
    /\ UNCHANGED queryVars

\* The worker of file_queue takes the next child while fewer than
\* worker_concurrency children are executing.
Dequeue(h) ==
    /\ wf[h].status = "enqueued"
    /\ Cardinality(Running) < worker_concurrency
    /\ wf' = [wf EXCEPT ![h].status = "running"]
    /\ UNCHANGED <<disk, diskChanges, ck, run, crashes>>
    /\ UNCHANGED storeVars
    /\ UNCHANGED queryVars

\* return {"status": ..., "file": file_name, ...}: the workflow ends, DBOS
\* records the result under the workflow id.
Returned(w, status, reason, n) ==
    [w EXCEPT !.status = "success", !.pc = "done",
              !.result = [status |-> status, file |-> w.path, reason |-> reason, chunks |-> n]]

\* An exception leaves process_file_workflow: DBOS records the error.
Raised(w, exc) == [w EXCEPT !.status = "error", !.pc = "done", !.exc = exc]

\* check_document_exists answering for any record at the path.
check_path_recorded(path, hash) == LookupDoc(path) # NoDoc

\* check_document_exists: existing_hash == file_info.file_hash.
check_document_exists(path, hash) == LookupDoc(path) # NoDoc /\ LookupDoc(path).file_hash = hash

\* Step 1: check_exists_step, and the early return on True.
CheckExistsStep(h, fails) ==
    /\ wf[h].status = "running" /\ wf[h].pc = "check"
    /\ IF fails
       THEN /\ wf' = [wf EXCEPT ![h] = Raised(@, "OperationalError")]
            /\ UNCHANGED ck
       ELSE LET exists == check_document_exists(wf[h].path, h) IN
            /\ ck' = [ck EXCEPT ![h].check = IF exists THEN "true" ELSE "false"]
            /\ wf' = [wf EXCEPT ![h] = IF exists THEN Returned(@, "skipped", "already_processed", NoCount)
                                                 ELSE [@ EXCEPT !.pc = "load"]]
    /\ UNCHANGED <<disk, diskChanges, run, crashes>>
    /\ UNCHANGED storeVars
    /\ UNCHANGED queryVars

\* process_file_workflow without its "if not docs: return".
LoadAndNormalizeStepNoEarlyReturn(h, fails, segs) ==
    /\ wf[h].status = "running" /\ wf[h].pc = "load"
    /\ IF fails \/ disk[wf[h].path] = Missing
       THEN /\ wf' = [wf EXCEPT ![h] = Raised(@, "DocumentLoadError")]
            /\ UNCHANGED ck
       ELSE /\ ck' = [ck EXCEPT ![h].load = segs]
            /\ wf' = [wf EXCEPT ![h].pc = "chunk"]
    /\ UNCHANGED <<disk, diskChanges, run, crashes>>
    /\ UNCHANGED storeVars
    /\ UNCHANGED queryVars

\* Step 2: load_and_normalize_step reads the file and returns `segs` segments
\* or raises DocumentLoadError (always when the file is gone); an empty list
\* ends the workflow as skipped.
LoadAndNormalizeStep(h, fails, segs) ==
    /\ wf[h].status = "running" /\ wf[h].pc = "load"
    /\ IF fails \/ disk[wf[h].path] = Missing
       THEN /\ wf' = [wf EXCEPT ![h] = Raised(@, "DocumentLoadError")]
            /\ UNCHANGED ck
       ELSE /\ ck' = [ck EXCEPT ![h].load = segs]
            /\ wf' = [wf EXCEPT ![h] = IF segs = 0 THEN Returned(@, "skipped", "no_content", NoCount)
                                                   ELSE [@ EXCEPT !.pc = "chunk"]]
    /\ UNCHANGED <<disk, diskChanges, run, crashes>>
    /\ UNCHANGED storeVars
    /\ UNCHANGED queryVars

\* process_file_workflow without its "if not chunks: return".
ChunkStepNoEarlyReturn(h, fails, n) ==
    /\ wf[h].status = "running" /\ wf[h].pc = "chunk"
    /\ IF fails
       THEN /\ wf' = [wf EXCEPT ![h] = Raised(@, "ChunkingError")]
            /\ UNCHANGED ck
       ELSE /\ ck' = [ck EXCEPT ![h].chunk = n]
            /\ wf' = [wf EXCEPT ![h].pc = "embed"]
    /\ UNCHANGED <<disk, diskChanges, run, crashes>>
    /\ UNCHANGED storeVars
    /\ UNCHANGED queryVars

\* Step 3: chunk_step returns n chunks or raises ChunkingError.
ChunkStep(h, fails, n) ==
    /\ wf[h].status = "running" /\ wf[h].pc = "chunk"
    /\ IF fails
       THEN /\ wf' = [wf EXCEPT ![h] = Raised(@, "ChunkingError")]
            /\ UNCHANGED ck
       ELSE /\ ck' = [ck EXCEPT ![h].chunk = n]
            /\ wf' = [wf EXCEPT ![h] = IF n = 0 THEN Returned(@, "skipped", "no_chunks", NoCount)
                                                ELSE [@ EXCEPT !.pc = "embed"]]
    /\ UNCHANGED <<disk, diskChanges, run, crashes>>
    /\ UNCHANGED storeVars
    /\ UNCHANGED queryVars

\* embed_step allowed one attempt more than max_attempts.
EmbedStepOneMoreAttempt(h, fails) ==
    /\ wf[h].status = "running" /\ wf[h].pc = "embed"
    /\ IF fails
       THEN /\ wf' = [wf EXCEPT ![h] = IF wf[h].attempts + 1 >= max_attempts + 1
                                       THEN Raised(@, "DBOSMaxStepRetriesExceeded")
                                       ELSE [@ EXCEPT !.attempts = @ + 1]]
            /\ UNCHANGED ck
       ELSE /\ ck' = [ck EXCEPT ![h].embed = "ok"]
            /\ wf' = [wf EXCEPT ![h].pc = "save", ![h].attempts = 0]
    /\ UNCHANGED <<disk, diskChanges, run, crashes>>
    /\ UNCHANGED storeVars
    /\ UNCHANGED queryVars

\* Step 4: one attempt of embed_step.  A failed attempt is repeated until
\* max_attempts attempts were made, then the step's error leaves the workflow.
EmbedStep(h, fails) ==
    /\ wf[h].status = "running" /\ wf[h].pc = "embed"
    /\ IF fails
       THEN /\ wf' = [wf EXCEPT ![h] = IF wf[h].attempts + 1 >= max_attempts
                                       THEN Raised(@, "DBOSMaxStepRetriesExceeded")
                                       ELSE [@ EXCEPT !.attempts = @ + 1]]
            /\ UNCHANGED ck
       ELSE /\ ck' = [ck EXCEPT ![h].embed = "ok"]
            /\ wf' = [wf EXCEPT ![h].pc = "save", ![h].attempts = 0]
    /\ UNCHANGED <<disk, diskChanges, run, crashes>>
    /\ UNCHANGED storeVars
    /\ UNCHANGED queryVars

\* save_step without its freshness guard.
FileChangedNever(path, hash) == FALSE

\* The freshness guard of save_step: the file exists and hashes differently.
FileChanged(path, hash) == disk[path] # Missing /\ get_file_hash(path) # hash

\* Step 5 (ids from generate_chunk_id) and Step 6: save_step is entered.
\* Either the guard returns without writing, and the workflow returns
\* success, or save_documents is called with the launch descriptor.
SaveStep(h) ==
    /\ wf[h].status = "running" /\ wf[h].pc = "save"
    /\ IF FileChanged(wf[h].path, h)
       THEN /\ ck' = [ck EXCEPT ![h].save = "aborted"]
            /\ wf' = [wf EXCEPT ![h] = Returned(@, "success", "", ck[h].chunk)]
            /\ UNCHANGED tx
       ELSE /\ BeginSave(h, wf[h].path, h, ck[h].chunk)
            /\ wf' = [wf EXCEPT ![h].pc = "saving"]
            /\ UNCHANGED ck
    /\ UNCHANGED <<disk, diskChanges, run, crashes>>
    /\ UNCHANGED <<docs, chunks, nextId, saves>>
    /\ UNCHANGED queryVars

\* save_documents came back: the step's output is recorded and the workflow
\* returns success, or the exception leaves the step and the workflow.
SaveStepReturn(h) ==
    /\ wf[h].status = "running" /\ wf[h].pc = "saving"
    /\ tx[h].phase \in {"ok", "raised"}
    /\ tx' = [tx EXCEPT ![h] = IdleTx]
    /\ IF tx[h].phase = "ok"
       THEN /\ ck' = [ck EXCEPT ![h].save = "saved"]
            /\ wf' = [wf EXCEPT ![h] = Returned(@, "success", "", ck[h].chunk)]
       ELSE /\ wf' = [wf EXCEPT ![h] = Raised(@, tx[h].exc)]
            /\ UNCHANGED ck
    /\ UNCHANGED <<disk, diskChanges, run, crashes>>
    /\ UNCHANGED <<docs, chunks, nextId, saves>>
    /\ UNCHANGED queryVars

\* A recovery that ignores the recorded step outputs.
ResumeFromStart(c) == "check"

\* DBOS recovery re-executes a pending workflow from its start; a step whose
\* output is recorded returns that output without running, so execution
\* effectively continues at the first step that has no recorded output.
ResumePc(c) ==
    IF c.check = "none" THEN "check"
    ELSE IF c.load = NoCount THEN "load"
    ELSE IF c.chunk = NoCount THEN "chunk"
    ELSE IF c.embed = "none" THEN "embed"
    ELSE "save"

\* -------------------------------------------------------- folder workflow
NoSummary == [status |-> "none", files_found |-> NoCount, files_processed |-> NoCount,
              files_skipped |-> NoCount]
NoEvents == [files_discovered |-> NoCount, files_completed |-> NoCount, files_skipped |-> NoCount]
NoRun == [pc |-> "idle", files |-> <<>>, idx |-> 0, results |-> <<>>,
          summary |-> NoSummary, events |-> NoEvents, exc |-> "none"]

\* with SetWorkflowID(f"ingestion-{run_id}"):
\*     result = await ingest_folder_workflow(str(folder_path), run_id)
\* The command-line entry point runs one folder workflow to its end.
StartFolder(r) ==
    /\ run[r].pc = "idle"
    /\ IF r = 1 THEN TRUE ELSE run[r - 1].pc \in {"complete", "failed"}
    /\ run' = [run EXCEPT ![r].pc = "discover"]
    /\ UNCHANGED <<disk, diskChanges, wf, ck, crashes>>
    /\ UNCHANGED storeVars
    /\ UNCHANGED queryVars

\* POST /ingestfolder: DBOS.start_workflow(ingest_folder_workflow, ...) returns
\* a handle at once, so a second request starts its folder workflow while the
\* first one is still running.
start_ingest(r) ==
    /\ run[r].pc = "idle"
    /\ run' = [run EXCEPT ![r].pc = "discover"]
    /\ UNCHANGED <<disk, diskChanges, wf, ck, crashes>>
    /\ UNCHANGED storeVars
    /\ UNCHANGED queryVars

\* Step 1: discover_files_step, set_event("files_discovered"), and the
\* early return for an empty folder.
DiscoverFilesStep(r, file_dicts) ==
    /\ run[r].pc = "discover"
    /\ run' = [run EXCEPT ![r] =
                IF Len(file_dicts) = 0
                THEN [@ EXCEPT !.pc = "complete", !.events.files_discovered = 0,
                               !.summary = [NoSummary EXCEPT !.status = "complete", !.files_found = 0]]
                ELSE [@ EXCEPT !.pc = "enqueue", !.files = file_dicts, !.idx = 1,
                               !.events.files_discovered = Len(file_dicts)]]
    /\ UNCHANGED <<disk, diskChanges, wf, ck, crashes>>
    /\ UNCHANGED storeVars
    /\ UNCHANGED queryVars

\* An enqueue that starts a new execution whatever DBOS knows of the id.
EnqueueChildAlwaysStarts(r) ==
    /\ run[r].pc = "enqueue"
    /\ LET file_dict == run[r].files[run[r].idx]
           child_id == file_dict.file_hash IN
       wf' = [wf EXCEPT ![child_id] = [NoWf EXCEPT !.status = "enqueued", !.pc = "check",
                                                  !.path = file_dict.file_path]]
    /\ run' = [run EXCEPT ![r] = IF run[r].idx = Len(run[r].files)
                                 THEN [@ EXCEPT !.pc = "await", !.idx = 1]
                                 ELSE [@ EXCEPT !.idx = @ + 1]]
    /\ UNCHANGED <<disk, diskChanges, ck, crashes>>
    /\ UNCHANGED storeVars
    /\ UNCHANGED queryVars

\* file_queue.enqueue_async(process_file_workflow, file_dict, workflow_id=child_id):
\* a workflow id that DBOS already knows is not started again, the handle
\* then refers to the recorded execution.
EnqueueChild(r) ==
    /\ run[r].pc = "enqueue"
    /\ LET file_dict == run[r].files[run[r].idx]
           child_id == file_dict.file_hash IN
       wf' = IF wf[child_id].status = "none"
             THEN [wf EXCEPT ![child_id] = [NoWf EXCEPT !.status = "enqueued", !.pc = "check",
                                                        !.path = file_dict.file_path]]
             ELSE wf
    /\ run' = [run EXCEPT ![r] = IF run[r].idx = Len(run[r].files)
                                 THEN [@ EXCEPT !.pc = "await", !.idx = 1]
                                 ELSE [@ EXCEPT !.idx = @ + 1]]
    /\ UNCHANGED <<disk, diskChanges, ck, crashes>>
    /\ UNCHANGED storeVars
    /\ UNCHANGED queryVars

CountStatus(results, status) == Cardinality({ i \in 1..Len(results) : results[i].status = status })

\* A summary that counts every result as processed.
SummaryAllProcessed(file_dicts, results) ==
    [status |-> "complete", files_found |-> Len(file_dicts),
     files_processed |-> Len(results),
     files_skipped |-> CountStatus(results, "skipped")]

\* The dictionary ingest_folder_workflow returns.
Summary(file_dicts, results) ==
    [status |-> "complete", files_found |-> Len(file_dicts),
     files_processed |-> CountStatus(results, "success"),
     files_skipped |-> CountStatus(results, "skipped")]

\* A result loop that takes whatever a child has recorded so far.
AwaitChildWithoutWaiting(r) ==
    /\ run[r].pc = "await"
    /\ LET child == wf[run[r].files[run[r].idx].file_hash]
           results == Append(run[r].results, child.result) IN
       /\ run' = [run EXCEPT ![r] =
                    IF child.status = "error"
                    THEN [@ EXCEPT !.pc = "failed", !.exc = child.exc]
                    ELSE IF run[r].idx = Len(run[r].files)
                    THEN [@ EXCEPT !.pc = "complete", !.results = results,
                                   !.summary = Summary(run[r].files, results),
                                   !.events.files_completed = CountStatus(results, "success"),
                                   !.events.files_skipped = CountStatus(results, "skipped")]
                    ELSE [@ EXCEPT !.idx = @ + 1, !.results = results]]
    /\ UNCHANGED <<disk, diskChanges, wf, ck, crashes>>
    /\ UNCHANGED storeVars
    /\ UNCHANGED queryVars

\* result = await handle.get_result(): returns the child's recorded result or
\* raises the child's recorded exception inside ingest_folder_workflow, which
\* has no handler for it.  After the last handle the counts are computed, the
\* completion events are set and the summary is returned.
AwaitChild(r) ==
    /\ run[r].pc = "await"
    /\ LET child == wf[run[r].files[run[r].idx].file_hash]
           results == Append(run[r].results, child.result) IN
       /\ child.status \in {"success", "error"}
       /\ run' = [run EXCEPT ![r] =
                    IF child.status = "error"
                    THEN [@ EXCEPT !.pc = "failed", !.exc = child.exc]
                    ELSE IF run[r].idx = Len(run[r].files)
                    THEN [@ EXCEPT !.pc = "complete", !.results = results,
                                   !.summary = Summary(run[r].files, results),
                                   !.events.files_completed = CountStatus(results, "success"),
                                   !.events.files_skipped = CountStatus(results, "skipped")]
                    ELSE [@ EXCEPT !.idx = @ + 1, !.results = results]]
    /\ UNCHANGED <<disk, diskChanges, wf, ck, crashes>>
    /\ UNCHANGED storeVars
    /\ UNCHANGED queryVars

\* ------------------------------------------------------------------ crash
InFlight ==
    \/ \E h \in WorkflowIds : wf[h].status \in {"enqueued", "running"}
    \/ \E r \in Runs : run[r].pc \in {"discover", "enqueue", "await"}

\* The process dies and is restarted.  Open sessions are rolled back by the
\* server, in-memory state is lost, and DBOS recovers every workflow that had
\* not ended from its recorded step outputs.
Crash ==
    /\ crashes < MaxCrashes
    /\ InFlight
    /\ crashes' = crashes + 1
    /\ tx' = [s \in Sessions |-> IdleTx]
    /\ wf' = [h \in WorkflowIds |->
                IF wf[h].status = "running"
                THEN [wf[h] EXCEPT !.status = "enqueued", !.pc = ResumePc(ck[h]),
                                   !.attempts = 0, !.recoveries = @ + 1]
                ELSE wf[h]]
    /\ run' = [r \in Runs |->
                IF run[r].pc \in {"enqueue", "await"}
                THEN [run[r] EXCEPT !.pc = "enqueue", !.idx = 1, !.results = <<>>]
                ELSE run[r]]
    /\ UNCHANGED <<disk, diskChanges, ck>>
    /\ UNCHANGED <<docs, chunks, nextId, saves>>
    /\ UNCHANGED queryVars

\* ------------------------------------------------------- similarity search
MaxTopK == 2          \* largest top_k of a search

\* Keys a RetrievalFilter can carry: its two declared fields and, because the
\* model is configured with extra='allow', any other key ("foo" stands for one).
FilterKeys == {"source", "file_type", "foo"}
\* A filter value: a string, or a list (here of one string).
Scalar(v) == [list |-> FALSE, v |-> v]
ListOf(v) == [list |-> TRUE, v |-> v]
FilterValues(key) ==
    IF key = "file_type" THEN {Scalar("pdf"), Scalar("txt")}
    ELSE IF key = "source" THEN {Scalar("docs/a.txt")}
    ELSE {Scalar("bar"), ListOf("bar")}

\* metadata_filter.model_dump(exclude_unset=True), or an empty dictionary for
\* no filter.
FilterDicts ==
    UNION { { f \in [K -> UNION { FilterValues(k) : k \in K }] : \A k \in K : f[k] \in FilterValues(k) }
            : K \in SUBSET FilterKeys }

IsList(value) == value.list

\* The predicate search_similar_chunks appends for one filter entry: the
\* metadata field named in the SQL text, the operator, and the bound parameter.
FilterClause(key, value) ==
    IF key = "file_type"
    THEN [field |-> "source", op |-> "ILIKE", param |-> "file_type_pattern"]
    ELSE IF IsList(value)
    THEN [field |-> key, op |-> "= ANY", param |-> key \o "_val"]
    ELSE [field |-> key, op |-> "=", param |-> key \o "_val"]

\* Optional values: None and a present value.
None == <<>>
Some(v) == <<v>>

\* The query_embedding argument: a list of floats of some length, or whatever
\* object the caller passed in its place.
Vector(length) == [kind |-> "list", length |-> length]

\* Cosine similarities (1 - distance) of stored chunks to a query, in tenths.
Similarities == {-1, 3, 5, 9}
\* The distance_threshold of a search that has one, in tenths.
DistanceThreshold == 6

NoSearch == [pc |-> "idle", query_embedding |-> None, top_k |-> 0, threshold |-> FALSE,
             filter |-> <<>>, clauses |-> {}, params |-> {}, session |-> FALSE,
             fetched |-> <<>>, rows |-> <<>>, exc |-> "none"]

SearchInit == search = NoSearch

\* search_similar_chunks up to its try block: params, the base SQL, one
\* predicate per filter entry, the threshold predicate, ORDER BY and LIMIT.
BuiltQuery(query_embedding, top_k, threshold, filter_dict) ==
    [NoSearch EXCEPT
        !.pc = "built", !.query_embedding = Some(query_embedding),
        !.top_k = top_k, !.threshold = threshold,
        !.filter = filter_dict,
        !.clauses = { FilterClause(k, filter_dict[k]) : k \in DOMAIN filter_dict },
        !.params = {"query_embedding", "top_k"}
                   \cup { FilterClause(k, filter_dict[k]).param : k \in DOMAIN filter_dict }
                   \cup (IF threshold THEN {"threshold"} ELSE {})]

\* A direct call of search_similar_chunks.
SearchBuildQuery(query_embedding, top_k, threshold, filter_dict) ==
    /\ search.pc = "idle"
    /\ rt.pc = "idle"
    /\ search' = BuiltQuery(query_embedding, top_k, threshold, filter_dict)
    /\ UNCHANGED <<rt, gen>>
    /\ UNCHANGED <<text, reranker>>
    /\ UNCHANGED storeVars
    /\ UNCHANGED wfVars

\* Paths whose chunks were saved with metadata that has no "source" key
\* (ChunkBase.metadata defaults to the empty dict).
SourcelessPaths == {"raw/c.md"}

\* The value standing for a metadata dict without the "source" key.
NoSource == "<no source>"

\* c.metadata->>'source': the loader records the path of the file a chunk was
\* cut from, which is the file_path of the document owning the chunk; a chunk
\* saved without that key has none.
SourceOf(c) ==
    IF \E d \in docs : d.id = c.document_id /\ d.file_path \notin SourcelessPaths
    THEN (CHOOSE d \in docs : d.id = c.document_id).file_path
    ELSE NoSource

\* The file type a path ends in ('%.pdf' matches "b.pdf").
Extension(path) ==
    CASE path \in {"a.txt", "d.txt", "docs/a.txt", "old/a.txt"} -> "txt"
      [] path \in {"b.pdf", "docs/b.pdf"} -> "pdf"
      [] path = "c.md" -> "md"
      [] OTHER -> ""

\* The WHERE clause of the built query on one stored chunk with similarity sim.
Matches(c, sim) ==
    /\ \A k \in DOMAIN search.filter :
          LET clause == FilterClause(k, search.filter[k])
              value == search.filter[k].v
          IN  /\ clause.field = "source"
              /\ IF clause.op = "ILIKE" THEN Extension(SourceOf(c)) = value
                                         ELSE SourceOf(c) = value
    /\ search.threshold => (10 - sim) < DistanceThreshold

\* ORDER BY c.embedding <=> :query_embedding LIMIT :top_k over the matching
\* chunks: the nearest first, ties in any order, at most top_k rows.
SearchRows(sim) ==
    LET match == { c \in chunks : Matches(c, sim[c]) }
        n == IF Cardinality(match) < search.top_k THEN Cardinality(match) ELSE search.top_k
    IN  { [i \in 1..n |-> [chunk_id |-> o[i].chunk_id, document_id |-> o[i].document_id,
                             source |-> SourceOf(o[i]), similarity |-> sim[o[i]],
                             rerank_score |-> None]]
          : o \in { f \in Orderings(match) :
                      \A i, j \in 1..Cardinality(match) : i < j => sim[f[i]] >= sim[f[j]] } }

\* RetrievalResult.similarity: Field(ge=0, le=1).
ValidSimilarity(similarity) == similarity >= 0 /\ similarity <= 10

\* async with db_manager.get_session() as session: session.execute(text(sql), params),
\* fetchall, and one RetrievalResult per row; any failure becomes a StorageException.
SearchExecute(fails) ==
    /\ search.pc = "built"
    /\ \E sim \in [chunks -> Similarities] : \E rows \in SearchRows(sim) :
          LET raises == fails \/ \E i \in 1..Len(rows) : ~ValidSimilarity(rows[i].similarity)
          IN  search' = [search EXCEPT !.pc = IF raises THEN "raised" ELSE "returned",
                                       !.session = TRUE,
                                       !.fetched = IF fails THEN <<>> ELSE rows,
                                       !.rows = IF raises THEN <<>> ELSE rows,
                                       !.exc = IF raises THEN "StorageException" ELSE "none"]
    /\ UNCHANGED <<rt, gen>>
    /\ UNCHANGED <<text, reranker>>
    /\ UNCHANGED storeVars
    /\ UNCHANGED wfVars

\* The caller has the result list or the exception.
SearchReturn ==
    /\ search.pc \in {"returned", "raised"}
    /\ rt.pc = "idle"
    /\ search' = NoSearch
    /\ UNCHANGED <<rt, gen>>
    /\ UNCHANGED <<text, reranker>>
    /\ UNCHANGED storeVars
    /\ UNCHANGED wfVars

\* ---------------------------------------------------------------- retrieval
dimension == 384      \* EmbeddingSettings.dimension

\* Lengths of the vector the embedder returns for a query.
EmbedderLengths == {384, 2}

\* Cross-encoder scores of (query, chunk) pairs, in tenths.
Scores == {-3, 1, 2, 9}

\* embed_query, awaited: the embedder's vector if its length is the configured
\* dimension, and EmbeddingError for an empty query, an embedder failure or
\* another length.
embed_query(query_is_empty, fails, length) ==
    IF query_is_empty \/ fails \/ length # dimension
    THEN [exc |-> "EmbeddingError", embedding |-> None]
    ELSE [exc |-> "none", embedding |-> Some(Vector(length))]

\* embed_query(...) called without await: the coroutine object.  Its body,
\* and with it the embedder call and the dimension check, has not run.
Coroutine == [kind |-> "coroutine", length |-> 0]

search_k_same(top_k, rerank) == top_k

\* search_k = top_k * 3 if rerank else top_k
search_k(top_k, rerank) == IF rerank THEN top_k * 3 ELSE top_k

\* chunks.sort(key=lambda x: x.rerank_score or 0, reverse=True): a stable sort,
\* the first of the candidates with the highest key first.
SortKey(x) == IF x.rerank_score = None THEN 0 ELSE x.rerank_score[1]

RECURSIVE SortDescending(_)
SortDescending(s) ==
    IF Len(s) <= 1 THEN s
    ELSE LET best == CHOOSE i \in 1..Len(s) :
                        \A j \in 1..Len(s) :
                            \/ SortKey(s[j]) < SortKey(s[i])
                            \/ SortKey(s[j]) = SortKey(s[i]) /\ i <= j
             rest == [k \in 1..(Len(s) - 1) |-> IF k < best THEN s[k] ELSE s[k + 1]]
         IN  <<s[best]>> \o SortDescending(rest)

\* chunks[:top_k] for top_k >= 0.
Truncate(s, top_k) == [i \in 1..(IF Len(s) < top_k THEN Len(s) ELSE top_k) |-> s[i]]

RerankWithoutSort(chunks_in, scores, top_k) ==
    Truncate([i \in 1..Len(chunks_in) |-> [chunks_in[i] EXCEPT !.rerank_score = Some(scores[i])]], top_k)

RerankWithoutTruncation(chunks_in, scores, top_k) ==
    SortDescending([i \in 1..Len(chunks_in) |-> [chunks_in[i] EXCEPT !.rerank_score = Some(scores[i])]])

\* rerank_results: score every chunk, sort by score, keep the first top_k.
rerank_results(chunks_in, scores, top_k) ==
    IF chunks_in = <<>> THEN <<>>
    ELSE Truncate(
           SortDescending([i \in 1..Len(chunks_in) |->
                              [chunks_in[i] EXCEPT !.rerank_score = Some(scores[i])]]),
           top_k)

NoRetrieve == [pc |-> "idle", top_k |-> 0, threshold |-> FALSE, filter |-> <<>>,
               rerank |-> FALSE, length |-> 0, embedding |-> None,
               candidates |-> <<>>, scores |-> <<>>, results |-> <<>>, exc |-> "none"]

RetrieveInit == rt = NoRetrieve

\* retrieve is called; preprocess_query has returned the processed query.
\* length is the length of the vector the embedder returns during this call.
StartedRetrieve(top_k, threshold, filter_dict, rerank, length) ==
    [NoRetrieve EXCEPT !.pc = "embed", !.top_k = top_k, !.threshold = threshold,
                       !.filter = filter_dict, !.rerank = rerank, !.length = length]

\* A direct call of retrieve.
RetrieveStart(top_k, threshold, filter_dict, rerank, length) ==
    /\ rt.pc = "idle"
    /\ gen.pc = "idle"
    /\ rt' = StartedRetrieve(top_k, threshold, filter_dict, rerank, length)
    /\ UNCHANGED <<search, gen>>
    /\ UNCHANGED <<text, reranker>>
    /\ UNCHANGED storeVars
    /\ UNCHANGED wfVars

\* embedding = embed_query(processed_query)
RetrieveEmbed ==
    /\ rt.pc = "embed"
    /\ rt' = [rt EXCEPT !.pc = "search", !.embedding = Some(Coroutine)]
    /\ UNCHANGED <<search, gen>>
    /\ UNCHANGED <<text, reranker>>
    /\ UNCHANGED storeVars
    /\ UNCHANGED wfVars

\* results = await search_similar_chunks(embedding, top_k=search_k, ...): the call.
RetrieveSearch ==
    /\ rt.pc = "search"
    /\ search.pc = "idle"
    /\ search' = BuiltQuery(rt.embedding[1], search_k(rt.top_k, rt.rerank), rt.threshold, rt.filter)
    /\ rt' = [rt EXCEPT !.pc = "searching"]
    /\ UNCHANGED gen
    /\ UNCHANGED <<text, reranker>>
    /\ UNCHANGED storeVars
    /\ UNCHANGED wfVars

\* search_similar_chunks has returned its list or raised.
RetrieveSearchDone ==
    /\ rt.pc = "searching"
    /\ search.pc \in {"returned", "raised"}
    /\ rt' = IF search.pc = "raised"
             THEN [rt EXCEPT !.pc = "raised", !.exc = search.exc]
             ELSE [rt EXCEPT !.pc = "rerank", !.candidates = search.rows, !.results = search.rows]
    /\ search' = NoSearch
    /\ UNCHANGED gen
    /\ UNCHANGED <<text, reranker>>
    /\ UNCHANGED storeVars
    /\ UNCHANGED wfVars

\* _reranker_model = None, with the number of CrossEncoder constructions made
\* and whether warmup_models has run.
NoReranker == [model |-> None, constructed |-> 0, warmed |-> FALSE]

RerankerInit == reranker = NoReranker

get_reranker_model_reloading(state) ==
    [state EXCEPT !.model = Some(state.constructed + 1), !.constructed = state.constructed + 1]

\* get_reranker_model: a synchronous function, so the event loop runs the test
\* of the global and the construction as one step.
get_reranker_model(state) ==
    IF state.model = None
    THEN [state EXCEPT !.model = Some(state.constructed + 1), !.constructed = state.constructed + 1]
    ELSE state

\* warmup_models, called once when the process starts; it may find a rerank
\* of a first request done before it.
warmup_models ==
    /\ ~reranker.warmed
    /\ reranker' = [get_reranker_model(reranker) EXCEPT !.warmed = TRUE]
    /\ UNCHANGED <<search, rt, gen, text>>
    /\ UNCHANGED storeVars
    /\ UNCHANGED wfVars

\* if rerank and results: results = rerank_results(query, results, top_k);
\* return RetrievalResponse(query, results, top_k).  scores is what the
\* cross-encoder predicts for the candidates.
RetrieveRerank ==
    /\ rt.pc = "rerank"
    /\ IF rt.rerank /\ rt.results # <<>>
       THEN \E scores \in [1..Len(rt.results) -> Scores] :
               /\ rt' = [rt EXCEPT !.pc = "returned", !.scores = scores,
                                   !.results = rerank_results(rt.results, scores, rt.top_k)]
               /\ reranker' = get_reranker_model(reranker)
       ELSE rt' = [rt EXCEPT !.pc = "returned"] /\ UNCHANGED reranker
    /\ UNCHANGED <<search, gen, text>>
    /\ UNCHANGED storeVars
    /\ UNCHANGED wfVars

\* The caller of retrieve has the response or the exception.
RetrieveReturn ==
    /\ rt.pc \in {"returned", "raised"}
    /\ gen.pc = "idle"
    /\ rt' = NoRetrieve
    /\ UNCHANGED <<search, gen>>
    /\ UNCHANGED <<text, reranker>>
    /\ UNCHANGED storeVars
    /\ UNCHANGED wfVars

\* --------------------------------------------------------------- generation
stop_after_attempt == 6   \* stop=stop_after_attempt(6)
max_allowed == 5          \* if retry_after > 5: give up
exp_min == 2              \* wait_exponential(multiplier=1, min=2, max=10)
exp_max == 10

\* Seconds a provider's rate-limit message may ask to wait ("retry in 2s").
RetryHints == {0, 2, 5, 6}

\* An exception of llm.ainvoke, by what _invoke_llm_with_retry looks for in
\* its lower-cased text: "rate limit" or "429"; "retry in <n>s"; "timeout" or
\* "timed out".
ProviderErrors ==
    [rate_limit : BOOLEAN, retry_in : {None} \cup { Some(h) : h \in RetryHints }, timeout : BOOLEAN]

NoError == [class |-> "none", branch |-> "none", retry_after |-> None]

ClassifyWithoutCeiling(e) ==
    IF e.rate_limit
    THEN [class |-> "LLMRateLimitError", branch |-> "rate_limit", retry_after |-> e.retry_in]
    ELSE IF e.timeout
    THEN [class |-> "LLMTimeoutError", branch |-> "timeout", retry_after |-> None]
    ELSE [class |-> "LLMError", branch |-> "generic", retry_after |-> None]

ClassifyLeaksTimeout(e) ==
    IF e.rate_limit
    THEN IF e.retry_in # None /\ e.retry_in[1] > max_allowed
         THEN [class |-> "LLMError", branch |-> "rate_limit", retry_after |-> e.retry_in]
         ELSE [class |-> "LLMRateLimitError", branch |-> "rate_limit", retry_after |-> e.retry_in]
    ELSE IF e.timeout
    THEN [class |-> "TimeoutError", branch |-> "timeout", retry_after |-> None]
    ELSE [class |-> "LLMError", branch |-> "generic", retry_after |-> None]

\* The except block of _invoke_llm_with_retry: the exception raised in place
\* of the provider's.
Classify(e) ==
    IF e.rate_limit
    THEN IF e.retry_in # None /\ e.retry_in[1] > max_allowed
         THEN [class |-> "LLMError", branch |-> "rate_limit", retry_after |-> e.retry_in]
         ELSE [class |-> "LLMRateLimitError", branch |-> "rate_limit", retry_after |-> e.retry_in]
    ELSE IF e.timeout
    THEN [class |-> "LLMTimeoutError", branch |-> "timeout", retry_after |-> None]
    ELSE [class |-> "LLMError", branch |-> "generic", retry_after |-> None]

\* retry=retry_if_exception_type((LLMRateLimitError, LLMTimeoutError))
Retried(error) == error.class \in {"LLMRateLimitError", "LLMTimeoutError"}

StopAfterOneMore(attempt_number) == attempt_number >= stop_after_attempt + 1

\* stop=stop_after_attempt(6)
Stop(attempt_number) == attempt_number >= stop_after_attempt

Greatest(a, b) == IF a > b THEN a ELSE b
Smallest(a, b) == IF a < b THEN a ELSE b

\* wait_exponential(multiplier=1, min=2, max=10) after attempt_number attempts:
\* max(min, min(2 ** (attempt_number - 1), max)).
wait_exponential(attempt_number) ==
    Greatest(exp_min, Smallest(2 ^ (attempt_number - 1), exp_max))

\* wait_smart_backoff
wait_smart_backoff(attempt_number, error) ==
    IF error.class = "LLMRateLimitError" /\ error.retry_after # None /\ error.retry_after[1] # 0
    THEN Greatest(wait_exponential(attempt_number), error.retry_after[1] + 1)
    ELSE wait_exponential(attempt_number)

\* Path(source.replace("\\", "/")).name
BaseName(path) ==
    CASE path \in {"docs/a.txt", "old/a.txt", "a.txt"} -> "a.txt"
      [] path \in {"docs/b.pdf", "b.pdf"} -> "b.pdf"
      [] OTHER -> path

\* metadata.get("source", default)
MetadataSource(result, default) == IF result.source = NoSource THEN default ELSE result.source

\* format_docs: one "[Source: <name>]" block per result, in result order.
format_docs(results) ==
    [i \in 1..Len(results) |-> [source |-> BaseName(MetadataSource(results[i], "Unknown Source")),
                                content |-> results[i].chunk_id]]

\* The code points that order the names: upper case before lower case.
NameRank(name) ==
    CASE name = "Unknown" -> 1
      [] name = "Unknown Source" -> 2
      [] name = "a.txt" -> 3
      [] name = "b.pdf" -> 4
      [] OTHER -> 5

\* sorted(list(set(names)))
RECURSIVE SortedNames(_)
SortedNames(names) ==
    IF names = {} THEN <<>>
    ELSE LET first == CHOOSE n \in names : \A m \in names : NameRank(n) <= NameRank(m)
         IN  <<first>> \o SortedNames(names \ {first})

\* Source tags an answer of the model may carry.
ResponseTags == {{}, {"a.txt"}, {"a.txt", "b.pdf"}}

NoGenerate == [pc |-> "idle", retrieval |-> None, context |-> <<>>, prompt |-> FALSE,
               attempts |-> 0, error |-> NoError, wait |-> 0, response |-> None, exc |-> "none"]

GenerateInit == gen = NoGenerate

\* generate_answer is called and calls retrieve.
GenerateStart(top_k, rerank, filter_dict, length) ==
    /\ gen.pc = "idle"
    /\ rt.pc = "idle"
    /\ gen' = [NoGenerate EXCEPT !.pc = "retrieving"]
    /\ rt' = StartedRetrieve(top_k, FALSE, filter_dict, rerank, length)
    /\ UNCHANGED search
    /\ UNCHANGED <<text, reranker>>
    /\ UNCHANGED storeVars
    /\ UNCHANGED wfVars

GenerateRetrievedNoShortCircuit ==
    /\ gen.pc = "retrieving"
    /\ rt.pc \in {"returned", "raised"}
    /\ LET retrieval_response == [results |-> rt.results, top_k |-> rt.top_k]
       IN  gen' = IF rt.pc = "raised"
                  THEN [gen EXCEPT !.pc = "raised", !.exc = rt.exc]
                  ELSE [gen EXCEPT !.pc = "invoke", !.retrieval = Some(retrieval_response),
                                   !.context = format_docs(rt.results), !.prompt = TRUE]
    /\ rt' = NoRetrieve
    /\ UNCHANGED search
    /\ UNCHANGED <<text, reranker>>
    /\ UNCHANGED storeVars
    /\ UNCHANGED wfVars

GenerateRetrievedSwallows ==
    /\ gen.pc = "retrieving"
    /\ rt.pc \in {"returned", "raised"}
    /\ LET retrieval_response == [results |-> rt.results, top_k |-> rt.top_k]
       IN  gen' = IF rt.pc = "raised" \/ rt.results = <<>>
                  THEN [gen EXCEPT !.pc = "returned", !.retrieval = Some(retrieval_response),
                                   !.response = Some([answer |-> [kind |-> "no_documents", context |-> <<>>],
                                                      citations |-> <<>>,
                                                      retrieval_context |-> retrieval_response])]
                  ELSE [gen EXCEPT !.pc = "invoke", !.retrieval = Some(retrieval_response),
                                   !.context = format_docs(rt.results), !.prompt = TRUE]
    /\ rt' = NoRetrieve
    /\ UNCHANGED search
    /\ UNCHANGED <<text, reranker>>
    /\ UNCHANGED storeVars
    /\ UNCHANGED wfVars

\* retrieve has returned or raised: an exception propagates, an empty result
\* list is answered at once, and otherwise the context is formatted and the
\* messages are built.
GenerateRetrieved ==
    /\ gen.pc = "retrieving"
    /\ rt.pc \in {"returned", "raised"}
    /\ LET retrieval_response == [results |-> rt.results, top_k |-> rt.top_k]
       IN  gen' = IF rt.pc = "raised"
                  THEN [gen EXCEPT !.pc = "raised", !.exc = rt.exc]
                  ELSE IF rt.results = <<>>
                  THEN [gen EXCEPT !.pc = "returned", !.retrieval = Some(retrieval_response),
                                   !.response = Some([answer |-> [kind |-> "no_documents", context |-> <<>>],
                                                      citations |-> <<>>,
                                                      retrieval_context |-> retrieval_response])]
                  ELSE [gen EXCEPT !.pc = "invoke", !.retrieval = Some(retrieval_response),
                                   !.context = format_docs(rt.results), !.prompt = TRUE]
    /\ rt' = NoRetrieve
    /\ UNCHANGED search
    /\ UNCHANGED <<text, reranker>>
    /\ UNCHANGED storeVars
    /\ UNCHANGED wfVars

\* One attempt of _invoke_llm_with_retry: llm.ainvoke returns the message or
\* raises e; a retried error below the attempt bound schedules a wait, any
\* other error leaves the retry loop.
InvokeLLM(responds, e) ==
    /\ gen.pc = "invoke"
    /\ LET attempt_number == gen.attempts + 1
           error == Classify(e)
       IN  gen' = IF responds
                  THEN [gen EXCEPT !.pc = "parse", !.attempts = attempt_number, !.error = NoError]
                  ELSE IF Retried(error) /\ ~Stop(attempt_number)
                  THEN [gen EXCEPT !.pc = "sleeping", !.attempts = attempt_number, !.error = error,
                                   !.wait = wait_smart_backoff(attempt_number, error)]
                  ELSE [gen EXCEPT !.pc = "llm_error", !.attempts = attempt_number, !.error = error]
    /\ UNCHANGED <<search, rt>>
    /\ UNCHANGED <<text, reranker>>
    /\ UNCHANGED storeVars
    /\ UNCHANGED wfVars

\* The wait before the next attempt has passed.
Sleep ==
    /\ gen.pc = "sleeping"
    /\ gen' = [gen EXCEPT !.pc = "invoke", !.error = NoError, !.wait = 0]
    /\ UNCHANGED <<search, rt>>
    /\ UNCHANGED <<text, reranker>>
    /\ UNCHANGED storeVars
    /\ UNCHANGED wfVars

\* The model answered: parse the content, extract the citations, respond.
\* An exception of the parsing (the returned object has no content) is not an
\* LLMError: except Exception logs it and raises it again.
GenerateRespond(tags, parses) ==
    /\ gen.pc = "parse"
    /\ gen' = IF parses
              THEN [gen EXCEPT !.pc = "returned",
                               !.response = Some([answer |-> [kind |-> "model", context |-> <<>>],
                                                  citations |-> SortedNames(tags),
                                                  retrieval_context |-> gen.retrieval[1]])]
              ELSE [gen EXCEPT !.pc = "raised", !.exc = "AttributeError"]
    /\ UNCHANGED <<search, rt>>
    /\ UNCHANGED <<text, reranker>>
    /\ UNCHANGED storeVars
    /\ UNCHANGED wfVars

DegradeRaises ==
    /\ gen.pc = "llm_error"
    /\ gen' = [gen EXCEPT !.pc = "raised", !.exc = gen.error.class]
    /\ UNCHANGED <<search, rt>>
    /\ UNCHANGED <<text, reranker>>
    /\ UNCHANGED storeVars
    /\ UNCHANGED wfVars

\* except LLMError: the labeled fallback answer with the formatted context and
\* the names of the retrieved sources.
Degrade ==
    /\ gen.pc = "llm_error"
    /\ gen' = [gen EXCEPT !.pc = "returned",
                          !.response = Some([answer |-> [kind |-> "degraded", context |-> gen.context],
                                             citations |-> SortedNames(
                                                 { BaseName(MetadataSource(gen.retrieval[1].results[i], "Unknown"))
                                                   : i \in 1..Len(gen.retrieval[1].results) }),
                                             retrieval_context |-> gen.retrieval[1]])]
    /\ UNCHANGED <<search, rt>>
    /\ UNCHANGED <<text, reranker>>
    /\ UNCHANGED storeVars
    /\ UNCHANGED wfVars

\* The caller of generate_answer has the response or the exception.
GenerateReturn ==
    /\ gen.pc \in {"returned", "raised"}
    /\ gen' = NoGenerate
    /\ UNCHANGED <<search, rt>>
    /\ UNCHANGED <<text, reranker>>
    /\ UNCHANGED storeVars
    /\ UNCHANGED wfVars

\* ----------------------------------------------------------- text functions
MaxAnswerLen == 5     \* longest answer text, in tokens
MaxTextLen == 5       \* longest text handed to normalize_text, in characters

\* An answer text is a sequence of tokens: the opening "[Source: ", the
\* closing "]", a line break, and two file names standing for any other text.
Open == "[Source: "
Close == "]"
NL == "\n"
AnswerTokens == {Open, Close, NL, "a.txt", "b.pdf"}

RECURSIVE SeqsUpTo(_, _)
SeqsUpTo(S, n) ==
    IF n = 0 THEN {<<>>}
    ELSE LET shorter == SeqsUpTo(S, n - 1)
         IN  shorter \cup { Append(q, x) : q \in { r \in shorter : Len(r) = n - 1 }, x \in S }

AnswerTexts == SeqsUpTo(AnswerTokens, MaxAnswerLen)

\* re.findall(r"\[Source: (.*?)\]", answer) from position pos: the leftmost
\* opening, the shortest run without a line break up to a closing, and on
\* from behind that closing.
RECURSIVE Findall(_, _)
Findall(answer, pos) ==
    IF pos > Len(answer) THEN <<>>
    ELSE IF answer[pos] # Open THEN Findall(answer, pos + 1)
    ELSE LET ends == { j \in (pos + 1)..Len(answer) :
                          /\ answer[j] = Close
                          /\ \A k \in (pos + 1)..(j - 1) : answer[k] \notin {Close, NL} }
         IN  IF ends = {} THEN Findall(answer, pos + 1)
             ELSE LET first == CHOOSE j \in ends : TRUE
                  IN  <<SubSeq(answer, pos + 1, first - 1)>> \o Findall(answer, first + 1)

\* The code point a token starts with.
TokenRank(token) ==
    CASE token = NL -> 10
      [] token = Open -> 91
      [] token = Close -> 93
      [] token = "a.txt" -> 97
      [] token = "b.pdf" -> 98

\* a < b for two strings
RECURSIVE StringLess(_, _)
StringLess(a, b) ==
    IF b = <<>> THEN FALSE
    ELSE IF a = <<>> THEN TRUE
    ELSE IF Head(a) # Head(b) THEN TokenRank(Head(a)) < TokenRank(Head(b))
    ELSE StringLess(Tail(a), Tail(b))

\* sorted(list(set(matches)))
RECURSIVE SortedStrings(_)
SortedStrings(strings) ==
    IF strings = {} THEN <<>>
    ELSE LET first == CHOOSE n \in strings : \A m \in strings \ {n} : StringLess(n, m)
         IN  <<first>> \o SortedStrings(strings \ {first})

\* _extract_citations
_extract_citations(answer) ==
    LET matches == Findall(answer, 1)
    IN  SortedStrings({ matches[i] : i \in 1..Len(matches) })

\* A text handed to normalize_text is a sequence of characters.
NUL == "\\x00"
Characters == {"a", " ", "\t", NL, NUL}
Texts == SeqsUpTo(Characters, MaxTextLen)

\* [^\S\n]: white space other than the line break
Blank(c) == c \in {" ", "\t"}

\* text.replace("\x00", "")
RemoveNulls(t) == SelectSeq(t, LAMBDA c : c # NUL)

\* re.sub(r'[^\S\n]+', ' ', text)
RECURSIVE CollapseBlanks(_)
CollapseBlanks(t) ==
    IF t = <<>> THEN <<>>
    ELSE IF ~Blank(Head(t)) THEN <<Head(t)>> \o CollapseBlanks(Tail(t))
    ELSE IF Len(t) > 1 /\ Blank(t[2]) THEN CollapseBlanks(Tail(t))
    ELSE <<" ">> \o CollapseBlanks(Tail(t))

\* re.sub(r'\n{3,}', '\n\n', text)
RECURSIVE CollapseNewlines(_)
CollapseNewlines(t) ==
    IF t = <<>> THEN <<>>
    ELSE IF Len(t) > 2 /\ t[1] = NL /\ t[2] = NL /\ t[3] = NL THEN CollapseNewlines(Tail(t))
    ELSE <<Head(t)>> \o CollapseNewlines(Tail(t))

\* text.strip()
RECURSIVE Strip(_)
Strip(t) ==
    IF t = <<>> THEN <<>>
    ELSE IF Blank(Head(t)) \/ Head(t) = NL THEN Strip(Tail(t))
    ELSE IF Blank(t[Len(t)]) \/ t[Len(t)] = NL THEN Strip(SubSeq(t, 1, Len(t) - 1))
    ELSE t

normalize_text_strip_first(t) ==
    IF t = <<>> THEN <<>>
    ELSE CollapseNewlines(CollapseBlanks(RemoveNulls(Strip(t))))

\* normalize_text
normalize_text(t) ==
    IF t = <<>> THEN <<>>
    ELSE Strip(CollapseNewlines(CollapseBlanks(RemoveNulls(t))))

NoText == [pc |-> "idle", input |-> <<>>, output |-> <<>>, again |-> <<>>]

TextInit == text = NoText

\* citations = _extract_citations(answer_text)
ExtractCitations ==
    /\ text.pc = "answer"
    /\ text' = [text EXCEPT !.pc = "extracted", !.output = _extract_citations(text.input)]
    /\ UNCHANGED <<search, rt, gen, reranker>>
    /\ UNCHANGED storeVars
    /\ UNCHANGED wfVars

\* normalize_text(text)
Normalize ==
    /\ text.pc = "text"
    /\ text' = [text EXCEPT !.pc = "normalized", !.output = normalize_text(text.input)]
    /\ UNCHANGED <<search, rt, gen, reranker>>
    /\ UNCHANGED storeVars
    /\ UNCHANGED wfVars

\* normalize_text called on a text that normalize_text returned
NormalizeAgain ==
    /\ text.pc = "normalized"
    /\ text' = [text EXCEPT !.pc = "renormalized", !.again = normalize_text(text.output)]
    /\ UNCHANGED <<search, rt, gen, reranker>>
    /\ UNCHANGED storeVars
    /\ UNCHANGED wfVars

QueryInit == SearchInit /\ RetrieveInit /\ GenerateInit /\ TextInit /\ RerankerInit

\* ---------------------------------------------------------- specifications
StoreInit ==
    /\ docs = {}
    /\ chunks = {}
    /\ nextId = 1
    /\ tx = [s \in Sessions |-> IdleTx]
    /\ saves = 0

WorkflowInit ==
    /\ diskChanges = 0
    /\ wf = [h \in WorkflowIds |-> NoWf]
    /\ ck = [h \in WorkflowIds |-> NoCk]
    /\ run = [r \in Runs |-> NoRun]
    /\ crashes = 0

\* The Chunk Store under direct calls of save_documents.
InitStore ==
    /\ StoreInit
    /\ WorkflowInit
    /\ QueryInit
    /\ disk = [p \in Paths |-> Missing]

NextStore ==
    \/ \E s \in Sessions, p \in Paths, n \in 0..MaxChunks : DirectSave(s, p, n)
    \/ \E s \in Sessions : SaveLookup(s)
    \/ \E s \in Sessions : SaveDeleteStart(s)
    \/ \E s \in Sessions : SaveDeleteFinish(s)
    \/ \E s \in Sessions : SaveFlushInsert(s)
    \/ \E s \in Sessions : SaveCommit(s)
    \/ \E s \in Sessions : SaveNoop(s)
    \/ \E s \in Sessions : DirectReturn(s)

SpecStore == InitStore /\ [][NextStore]_vars

\* The Chunk Store under calls of save_documents that do not overlap, as the
\* plain ingestion script makes them (for file_info in files: await ...).
SerialSave(s, path, n) ==
    /\ \A t \in Sessions : tx[t].phase = "idle"
    /\ DirectSave(s, path, n)

NextStoreSerial ==
    \/ \E s \in Sessions, p \in Paths, n \in 0..MaxChunks : SerialSave(s, p, n)
    \/ \E s \in Sessions : SaveLookup(s)
    \/ \E s \in Sessions : SaveDeleteStart(s)
    \/ \E s \in Sessions : SaveDeleteFinish(s)
    \/ \E s \in Sessions : SaveFlushInsert(s)
    \/ \E s \in Sessions : SaveCommit(s)
    \/ \E s \in Sessions : SaveNoop(s)
    \/ \E s \in Sessions : DirectReturn(s)

SpecStoreSerial == InitStore /\ [][NextStoreSerial]_vars

\* The ingestion workflow engine over a folder whose files change.  The files
\* take two different contents; hash names carry no meaning, so a folder
\* starts with "h1" as the content of its first file.
FolderHashes == {"h1", "h2"}
InitialDisks ==
    { d \in [Paths -> FolderHashes \cup {Missing}] :
        /\ d["a.txt"] # "h2"
        /\ d["a.txt"] = Missing => d["b.pdf"] # "h2" }

Init ==
    /\ StoreInit
    /\ WorkflowInit
    /\ QueryInit
    /\ disk \in InitialDisks

Next ==
    \/ \E p \in Paths, v \in FolderHashes \cup {Missing} : DiskChange(p, v)
    \/ \E r \in Runs : StartFolder(r)
    \/ \E r \in Runs : \E file_dicts \in Orderings(discover_files) : DiscoverFilesStep(r, file_dicts)
    \/ \E r \in Runs : EnqueueChild(r)
    \/ \E r \in Runs : AwaitChild(r)
    \/ \E h \in WorkflowIds : Dequeue(h)
    \/ \E h \in WorkflowIds, fails \in BOOLEAN : CheckExistsStep(h, fails)
    \/ \E h \in WorkflowIds, fails \in BOOLEAN, segs \in 0..1 : LoadAndNormalizeStep(h, fails, segs)
    \/ \E h \in WorkflowIds, fails \in BOOLEAN, n \in 0..MaxChunks : ChunkStep(h, fails, n)
    \/ \E h \in WorkflowIds, fails \in BOOLEAN : EmbedStep(h, fails)
    \/ \E h \in WorkflowIds : SaveStep(h)
    \/ \E h \in WorkflowIds : SaveLookup(h)
    \/ \E h \in WorkflowIds : SaveDeleteStart(h)
    \/ \E h \in WorkflowIds : SaveDeleteFinish(h)
    \/ \E h \in WorkflowIds : SaveFlushInsert(h)
    \/ \E h \in WorkflowIds : SaveCommit(h)
    \/ \E h \in WorkflowIds : SaveStepReturn(h)

Spec == Init /\ [][Next]_vars

\* The engine behind the REST endpoint, over a folder whose file a.txt the
\* store already holds in an earlier version "h3" (saved by the ingestion
\* script, so DBOS has no workflow recorded for it).
InitApi ==
    /\ docs = {[id |-> 1, file_path |-> "a.txt", file_hash |-> "h3"]}
    /\ chunks = DbChunks(ScriptChunkCreates("h3", 1), 1)
    /\ nextId = 2
    /\ tx = [s \in Sessions |-> IdleTx]
    /\ saves = 0
    /\ WorkflowInit
    /\ QueryInit
    /\ disk = [p \in Paths |-> IF p = "a.txt" THEN "h1" ELSE Missing]

NextApi ==
    \/ \E p \in Paths, v \in FolderHashes \cup {Missing} : DiskChange(p, v)
    \/ \E r \in Runs : start_ingest(r)
    \/ \E r \in Runs : \E file_dicts \in Orderings(discover_files) : DiscoverFilesStep(r, file_dicts)
    \/ \E r \in Runs : EnqueueChild(r)
    \/ \E r \in Runs : AwaitChild(r)
    \/ \E h \in WorkflowIds : Dequeue(h)
    \/ \E h \in WorkflowIds, fails \in BOOLEAN : CheckExistsStep(h, fails)
    \/ \E h \in WorkflowIds, fails \in BOOLEAN, segs \in 0..1 : LoadAndNormalizeStep(h, fails, segs)
    \/ \E h \in WorkflowIds, fails \in BOOLEAN, n \in 0..MaxChunks : ChunkStep(h, fails, n)
    \/ \E h \in WorkflowIds, fails \in BOOLEAN : EmbedStep(h, fails)
    \/ \E h \in WorkflowIds : SaveStep(h)
    \/ \E h \in WorkflowIds : SaveLookup(h)
    \/ \E h \in WorkflowIds : SaveDeleteStart(h)
    \/ \E h \in WorkflowIds : SaveDeleteFinish(h)
    \/ \E h \in WorkflowIds : SaveFlushInsert(h)
    \/ \E h \in WorkflowIds : SaveCommit(h)
    \/ \E h \in WorkflowIds : SaveStepReturn(h)

SpecApi == InitApi /\ [][NextApi]_vars

\* The same engine in a process that may crash and be restarted.  Only a save
\* step that runs again after a crash finds its own hash already stored, so
\* the idempotency hit of save_documents is a step of this specification only.
NextCrash ==
    \/ Next
    \/ \E h \in WorkflowIds : SaveNoop(h)
    \/ Crash

SpecCrash == Init /\ [][NextCrash]_vars

\* The engine over a folder of more files than the queue has worker slots,
\* each with its own content; every file loads, chunks and embeds, so that
\* all children are in the pipeline together.
QueuePaths == {"a.txt", "b.pdf", "c.md", "d.txt"}

QueueDisk ==
    [p \in QueuePaths |-> IF p = "a.txt" THEN "h1" ELSE IF p = "b.pdf" THEN "h2"
                          ELSE IF p = "c.md" THEN "h3" ELSE "h4"]

InitQueue ==
    /\ StoreInit
    /\ WorkflowInit
    /\ QueryInit
    /\ disk = QueueDisk

\* The files in the order the directory walk lists them here; the children
\* differ in nothing but their names, so one order stands for all.
QueueFiles ==
    << [file_path |-> "a.txt", file_hash |-> get_file_hash("a.txt")],
       [file_path |-> "b.pdf", file_hash |-> get_file_hash("b.pdf")],
       [file_path |-> "c.md", file_hash |-> get_file_hash("c.md")],
       [file_path |-> "d.txt", file_hash |-> get_file_hash("d.txt")] >>

\* One step of the per-file workflow h, or one statement of its save.
ChildStep(h) ==
    \/ CheckExistsStep(h, FALSE)
    \/ LoadAndNormalizeStep(h, FALSE, 1)
    \/ ChunkStep(h, FALSE, 1)
    \/ \E fails \in BOOLEAN : EmbedStep(h, fails)
    \/ SaveStep(h)
    \/ SaveLookup(h)
    \/ SaveFlushInsert(h)
    \/ SaveCommit(h)
    \/ SaveStepReturn(h)

NextQueue ==
    \/ StartFolder(1)
    \/ DiscoverFilesStep(1, QueueFiles)
    \/ EnqueueChild(1)
    \/ AwaitChild(1)
    \/ \E h \in WorkflowIds : Dequeue(h)
    \/ \E h \in WorkflowIds : ChildStep(h)

\* The queue worker polls, and the event loop runs every task that is ready:
\* a child that can be taken from the queue is taken, and a workflow that can
\* take a step takes one.
SpecQueue ==
    /\ InitQueue
    /\ [][NextQueue]_vars
    /\ \A h \in WorkflowIds : WF_vars(Dequeue(h)) /\ WF_vars(ChildStep(h))

\* Searches against the store.
InitSearch ==
    /\ StoreInit
    /\ WorkflowInit
    /\ QueryInit
    /\ disk = [p \in Paths |-> Missing]

NextSearch ==
    \/ \E top_k \in 1..MaxTopK, threshold \in BOOLEAN, filter_dict \in FilterDicts :
          SearchBuildQuery(Vector(dimension), top_k, threshold, filter_dict)
    \/ \E fails \in BOOLEAN : SearchExecute(fails)
    \/ SearchReturn

SpecSearch == InitSearch /\ [][NextSearch]_vars

\* A store that has ingested three one-chunk files, two of them of one name.
IngestedDocs == { [id |-> 1, file_path |-> "docs/a.txt", file_hash |-> "h1"],
                  [id |-> 2, file_path |-> "old/a.txt", file_hash |-> "h2"],
                  [id |-> 3, file_path |-> "docs/b.pdf", file_hash |-> "h3"] }
IngestedChunks == DbChunks(ChunkCreates("h1", 1), 1) \cup DbChunks(ChunkCreates("h2", 1), 2)
                  \cup DbChunks(ChunkCreates("h3", 1), 3)

\* Filters of the retrieve calls: none, one on source, one on file_type.
RetrieveFilters == { f \in FilterDicts : Cardinality(DOMAIN f) <= 1 /\ "foo" \notin DOMAIN f }

\* A store holding one file saved with bare chunk metadata beside an ingested one.
BareDocs == { [id |-> 1, file_path |-> "raw/c.md", file_hash |-> "h4"],
              [id |-> 2, file_path |-> "docs/b.pdf", file_hash |-> "h3"] }
BareChunks == DbChunks(ChunkCreates("h4", 1), 1) \cup DbChunks(ChunkCreates("h3", 1), 2)

\* Calls of retrieve against an empty store, the ingested one or the bare one.
InitRetrieve ==
    /\ \/ docs = {} /\ chunks = {} /\ nextId = 1
       \/ docs = IngestedDocs /\ chunks = IngestedChunks /\ nextId = 4
       \/ docs = BareDocs /\ chunks = BareChunks /\ nextId = 3
    /\ tx = [s \in Sessions |-> IdleTx]
    /\ saves = 0
    /\ WorkflowInit
    /\ QueryInit
    /\ disk = [p \in Paths |-> Missing]

NextRetrieve ==
    \/ \E top_k \in 1..MaxTopK, threshold \in BOOLEAN, filter_dict \in RetrieveFilters,
          rerank \in BOOLEAN, length \in EmbedderLengths :
          RetrieveStart(top_k, threshold, filter_dict, rerank, length)
    \/ RetrieveEmbed
    \/ RetrieveSearch
    \/ \E fails \in BOOLEAN : SearchExecute(fails)
    \/ RetrieveSearchDone
    \/ RetrieveRerank
    \/ RetrieveReturn
    \/ warmup_models

SpecRetrieve == InitRetrieve /\ [][NextRetrieve]_vars

\* Calls of generate_answer against an empty store or the ingested one.
NextGenerate ==
    \/ \E top_k \in 1..MaxTopK, rerank \in BOOLEAN, filter_dict \in RetrieveFilters,
          length \in EmbedderLengths :
          GenerateStart(top_k, rerank, filter_dict, length)
    \/ RetrieveEmbed
    \/ RetrieveSearch
    \/ \E fails \in BOOLEAN : SearchExecute(fails)
    \/ RetrieveSearchDone
    \/ RetrieveRerank
    \/ GenerateRetrieved
    \/ \E responds \in BOOLEAN, e \in ProviderErrors : InvokeLLM(responds, e)
    \/ Sleep
    \/ \E tags \in ResponseTags, parses \in BOOLEAN : GenerateRespond(tags, parses)
    \/ Degrade
    \/ GenerateReturn

SpecGenerate == InitRetrieve /\ [][NextGenerate]_vars

\* The event loop runs an attempt that is due and wakes a sleeping retry.
SpecGenerateFair ==
    /\ SpecGenerate
    /\ WF_vars(\E responds \in BOOLEAN, e \in ProviderErrors : InvokeLLM(responds, e))
    /\ WF_vars(Sleep)

\* _extract_citations applied to every answer text up to MaxAnswerLen tokens.
InitCitations ==
    /\ StoreInit
    /\ WorkflowInit
    /\ disk = [p \in Paths |-> Missing]
    /\ SearchInit /\ RetrieveInit /\ GenerateInit /\ RerankerInit
    /\ \E answer \in AnswerTexts : text = [NoText EXCEPT !.pc = "answer", !.input = answer]

NextCitations == ExtractCitations

SpecCitations == InitCitations /\ [][NextCitations]_vars

\* normalize_text applied to every text up to MaxTextLen characters, and to
\* what it returned.
InitNormalize ==
    /\ StoreInit
    /\ WorkflowInit
    /\ disk = [p \in Paths |-> Missing]
    /\ SearchInit /\ RetrieveInit /\ GenerateInit /\ RerankerInit
    /\ \E t \in Texts : text = [NoText EXCEPT !.pc = "text", !.input = t]

NextNormalize ==
    \/ Normalize
    \/ NormalizeAgain

SpecNormalize == InitNormalize /\ [][NextNormalize]_vars

\* The plain ingestion script run over the folder before the workflow engine
\* is used on it: process_file skips a file the store already records with
\* its hash, and saves the chunks of any other file when there are some.
\* The script's session is the slot no folder workflow uses.
ScriptSession == "h3"
MaxScriptSaves == 1   \* files the script saves in one behaviour

ScriptIngest(p, n) ==
    /\ run[1].pc = "idle"
    /\ tx[ScriptSession].phase = "idle"
    /\ saves < MaxScriptSaves
    /\ disk[p] # Missing
    /\ ~check_document_exists(p, get_file_hash(p))
    /\ saves' = saves + 1
    /\ tx' = [tx EXCEPT ![ScriptSession] =
                [IdleTx EXCEPT !.phase = "lookup", !.path = p, !.hash = get_file_hash(p), !.n = n,
                               !.creates = ScriptChunkCreates(get_file_hash(p), n)]]
    /\ UNCHANGED <<docs, chunks, nextId>>
    /\ UNCHANGED wfVars
    /\ UNCHANGED queryVars

\* The operator starts the engine once the script has ended.
StartFolderAfterScript(r) ==
    /\ tx[ScriptSession].phase = "idle"
    /\ StartFolder(r)

NextScript ==
    \/ \E p \in Paths, n \in 1..MaxChunks : ScriptIngest(p, n)
    \/ DirectReturn(ScriptSession)
    \/ \E p \in Paths, v \in FolderHashes \cup {Missing} : DiskChange(p, v)
    \/ \E r \in Runs : StartFolderAfterScript(r)
    \/ \E r \in Runs : \E file_dicts \in Orderings(discover_files) : DiscoverFilesStep(r, file_dicts)
    \/ \E r \in Runs : EnqueueChild(r)
    \/ \E r \in Runs : AwaitChild(r)
    \/ \E h \in WorkflowIds : Dequeue(h)
    \/ \E h \in WorkflowIds, fails \in BOOLEAN : CheckExistsStep(h, fails)
    \/ \E h \in WorkflowIds, fails \in BOOLEAN, segs \in 0..1 : LoadAndNormalizeStep(h, fails, segs)
    \/ \E h \in WorkflowIds, fails \in BOOLEAN, n \in 0..MaxChunks : ChunkStep(h, fails, n)
    \/ \E h \in WorkflowIds, fails \in BOOLEAN : EmbedStep(h, fails)
    \/ \E h \in WorkflowIds : SaveStep(h)
    \/ \E s \in Sessions : SaveLookup(s)
    \/ \E s \in Sessions : SaveDeleteStart(s)
    \/ \E s \in Sessions : SaveDeleteFinish(s)
    \/ \E s \in Sessions : SaveFlushInsert(s)
    \/ \E s \in Sessions : SaveCommit(s)
    \/ \E h \in WorkflowIds : SaveStepReturn(h)

SpecScript == Init /\ [][NextScript]_vars

\* Script, then engine, in a process that may crash and be restarted.
NextScriptCrash ==
    \/ NextScript
    \/ \E h \in WorkflowIds : SaveNoop(h)
    \/ Crash

SpecScriptCrash == Init /\ [][NextScriptCrash]_vars

\* ============================================================== properties
\* ------------------------------------------------------------ Chunk Store
ChunksOf(doc_id) == { c \in chunks : c.document_id = doc_id }

\* C1: a save whose lookup finds the descriptor's hash already recorded for
\* the path writes nothing, whatever chunk list it was given: every step that
\* changes a source_documents row or the set of stored chunks is the commit of
\* a save whose lookup did not find its own hash, and a save that found its
\* hash returns normally.
C1_SaveUnchangedIsNoop ==
    [][ /\ (docs' # docs \/ chunks' # chunks) =>
              \E s \in Sessions : /\ tx[s].phase = "commit"
                                  /\ tx'[s].phase = "ok"
                                  /\ tx[s].seenHash # tx[s].hash
        /\ \A s \in Sessions :
              (tx[s].phase # "idle" /\ tx[s].seenHash = tx[s].hash /\ tx'[s] # tx[s]) =>
                  tx'[s].phase \in {"ok", "idle"} ]_vars

\* A save returned after finding its hash recorded, and the chunk list it
\* carried differs from the chunks the store holds for the document.
C1_Witness ==
    \E s \in Sessions : /\ tx[s].phase = "ok"
                        /\ tx[s].seenHash = tx[s].hash
                        /\ Cardinality(ChunksOf(tx[s].docId)) # tx[s].n
                        /\ ChunksOf(tx[s].docId) # {}

C5_SaveAtomicAndClassified ==
    [][ \A s \in Sessions :
          (tx[s].phase # "raised" /\ tx'[s].phase = "raised") =>
              /\ docs' = docs
              /\ chunks' = chunks
              /\ tx'[s].exc = "StorageException" ]_vars

\* C6: at most one SourceDocument per file path.
C6_OneDocumentPerPath ==
    \A d1 \in docs : \A d2 \in docs : d1.file_path = d2.file_path => d1 = d2

\* Two saves of one unrecorded path interleaved: this one looked the path up,
\* found nothing, and its INSERT met the row the other had committed meanwhile.
C6_Witness ==
    \E s \in Sessions : /\ tx[s].phase = "raised"
                        /\ tx[s].exc = "StorageException"
                        /\ tx[s].docId = 0
                        /\ DocsAt(tx[s].path) # {}

\* ------------------------------------------------------- per-file workflow
\* C3: when save_step runs while the file exists and hashes differently from
\* the hash the workflow was launched with, that step opens no session on the
\* store, changes no row, raises nothing, and the workflow returns success;
\* such a workflow has stored no tracking row and no chunk of its hash.
C3_FreshnessGuardAborts ==
    /\ [][ \A h \in WorkflowIds :
             ( /\ wf[h].status = "running" /\ wf[h].pc = "save"
               /\ disk[wf[h].path] # Missing /\ disk[wf[h].path] # h
               /\ wf'[h] # wf[h] ) =>
                 /\ docs' = docs /\ chunks' = chunks
                 /\ tx'[h] = IdleTx
                 /\ wf'[h].status = "success" /\ wf'[h].exc = "none"
                 /\ wf'[h].result.status = "success" ]_vars
    /\ [](\A h \in WorkflowIds :
             ck[h].save = "aborted" =>
                 /\ \A d \in docs : d.file_hash # h
                 /\ \A c \in chunks : c.chunk_id[1] # h
                 /\ wf[h].status = "success")

\* The guard fired: the file on disk no longer has the launch hash, and the
\* workflow has returned success.
C3_Witness ==
    \E h \in WorkflowIds : /\ ck[h].save = "aborted"
                           /\ wf[h].status = "success"
                           /\ wf[h].result.status = "success"
                           /\ disk[wf[h].path] \notin {Missing, h}

\* C4: a per-file workflow commits chunks for a path only while the file on
\* disk still hashes to the hash the workflow was launched with.
C4_WritesOnlyFreshContent ==
    [][ \A h \in WorkflowIds :
          (wf[h].pc = "saving" /\ tx[h].phase = "commit" /\ tx'[h].phase = "ok") =>
              disk[wf[h].path] = h ]_vars

\* C8: a per-file workflow that is waiting or executing stands at the first
\* step that has no recorded output, with the outputs of all earlier steps
\* recorded, so no step with a recorded output runs again after a recovery;
\* and the result a workflow returns is the one its recorded outputs determine.
C8_CrashResumption ==
    \A h \in WorkflowIds :
        LET w == wf[h]
            c == ck[h] IN
        /\ w.status \in {"enqueued", "running"} =>
              /\ w.pc = "check" => c = NoCk
              /\ w.pc = "load" => c.check = "false" /\ c.load = NoCount
              /\ w.pc = "chunk" => c.load >= 1 /\ c.chunk = NoCount
              /\ w.pc = "embed" => c.chunk >= 1 /\ c.embed = "none"
              /\ w.pc \in {"save", "saving"} => c.embed = "ok" /\ c.save = "none"
        /\ w.status = "success" =>
              w.result = IF c.check = "true"
                         THEN [status |-> "skipped", file |-> w.path,
                               reason |-> "already_processed", chunks |-> NoCount]
                         ELSE IF c.load = 0
                         THEN [status |-> "skipped", file |-> w.path,
                               reason |-> "no_content", chunks |-> NoCount]
                         ELSE IF c.chunk = 0
                         THEN [status |-> "skipped", file |-> w.path,
                               reason |-> "no_chunks", chunks |-> NoCount]
                         ELSE [status |-> "success", file |-> w.path,
                               reason |-> "", chunks |-> c.chunk]

\* A workflow whose embedding was recorded before the crash has been recovered
\* and is executing again, at the save step.
C8_Witness ==
    \E h \in WorkflowIds : /\ wf[h].recoveries >= 1
                           /\ wf[h].status = "running"
                           /\ wf[h].pc = "saving"
                           /\ ck[h].embed = "ok"

\* C10: the position of a per-file workflow and its recorded step outputs
\* agree with the order check, load, chunk, embed, save: a step is entered
\* only with the outputs of exactly the earlier steps recorded, the save step
\* only after check returned false, load and chunk returned something and
\* embed succeeded, and save_documents runs only inside the save step.
C10_StepOrder ==
    \A h \in WorkflowIds :
        LET w == wf[h]
            c == ck[h] IN
        /\ w.pc \in {"none", "check"} => c = NoCk
        /\ w.pc = "load" => c = [NoCk EXCEPT !.check = "false"]
        /\ w.pc = "chunk" => c.load >= 1 /\ c = [NoCk EXCEPT !.check = "false", !.load = c.load]
        /\ w.pc = "embed" =>
              /\ c.chunk >= 1 /\ c.load >= 1
              /\ c = [NoCk EXCEPT !.check = "false", !.load = c.load, !.chunk = c.chunk]
        /\ (w.pc \in {"save", "saving"} \/ c.save # "none") =>
              /\ c.check = "false" /\ c.load >= 1 /\ c.chunk >= 1 /\ c.embed = "ok"
        /\ w.pc \in {"save", "saving"} => c.save = "none"
        /\ tx[h].phase # "idle" => w.pc = "saving"
        /\ c.load # NoCount => c.check = "false"
        /\ c.chunk # NoCount => c.load >= 1
        /\ c.embed # "none" => c.chunk >= 1

\* One file's workflow has saved while another file's workflow is in the
\* middle of its steps.
C10_Witness ==
    \E h1 \in WorkflowIds : \E h2 \in WorkflowIds \ {h1} :
        /\ ck[h1].save = "saved"
        /\ wf[h2].status = "running"
        /\ wf[h2].pc \in {"chunk", "embed"}

\* --------------------------------------------------------- folder workflow
FailedChildren(r) ==
    { i \in 1..Len(run[r].files) : wf[run[r].files[i].file_hash].status = "error" }

\* C7: a folder workflow that has ended and had a child end in an exception
\* has returned a summary with status complete, in which the failing files
\* are counted neither as processed nor as skipped.
C7_FailureIsolation ==
    \A r \in Runs :
        (run[r].pc \in {"complete", "failed"} /\ FailedChildren(r) # {}) =>
            /\ run[r].pc = "complete"
            /\ run[r].summary.status = "complete"
            /\ run[r].summary.files_processed + run[r].summary.files_skipped
                   = Len(run[r].files) - Cardinality(FailedChildren(r))

\* Files of run r that the previous run ingested with the same content and
\* that the store still records with that content.
UnchangedFiles(r) ==
    { i \in 1..Len(run[r].files) :
        /\ check_document_exists(run[r].files[i].file_path, run[r].files[i].file_hash)
        /\ \E j \in 1..Len(run[r - 1].files) :
              /\ run[r - 1].files[j] = run[r].files[i]
              /\ run[r - 1].results[j].status = "success" }

\* C9: the summary of a folder run counts every file the previous run had
\* ingested with the same content in files_skipped, and only the remaining
\* files in files_processed.
C9_UnchangedFilesSkipped ==
    \A r \in Runs \ {1} :
        (run[r].pc = "complete" /\ run[r - 1].pc = "complete" /\ Len(run[r].files) > 0) =>
            /\ run[r].summary.files_found = Len(run[r].files)
            /\ run[r].summary.files_skipped >= Cardinality(UnchangedFiles(r))
            /\ run[r].summary.files_processed <= Len(run[r].files) - Cardinality(UnchangedFiles(r))

\* C11: a check step that returns ends the workflow as skipped with reason
\* already_processed exactly when the store holds a row at the file's path
\* with the launch hash, and otherwise (another hash, or no row) moves on to
\* loading; a workflow skipped that way ran no later step and wrote nothing.
C11_CheckingStep ==
    /\ [][ \A h \in WorkflowIds :
             ( /\ wf[h].status = "running" /\ wf[h].pc = "check"
               /\ wf'[h] # wf[h] /\ wf'[h].status # "error" ) =>
                 IF \E d \in docs : d.file_path = wf[h].path /\ d.file_hash = h
                 THEN /\ wf'[h].status = "success"
                      /\ wf'[h].result = [status |-> "skipped", file |-> wf[h].path,
                                           reason |-> "already_processed", chunks |-> NoCount]
                      /\ docs' = docs /\ chunks' = chunks /\ tx'[h] = IdleTx
                 ELSE /\ wf'[h].status = "running"
                      /\ wf'[h].pc = "load" ]_vars
    /\ [](\A h \in WorkflowIds :
             wf[h].result.reason = "already_processed" =>
                 /\ ck[h] = [NoCk EXCEPT !.check = "true"]
                 /\ tx[h] = IdleTx)

\* One workflow was skipped as already processed, and another went on to
\* loading although its path was recorded, with a different hash.
C11_Witness ==
    /\ \E h \in WorkflowIds : wf[h].result.reason = "already_processed"
    /\ \E h \in WorkflowIds : /\ ck[h].check = "false"
                              /\ wf[h].pc = "load"
                              /\ LookupDoc(wf[h].path) # NoDoc
                              /\ LookupDoc(wf[h].path).file_hash # h

\* C12: a load step that returns no segment ends the workflow as skipped with
\* reason no_content, a chunk step that returns no chunk ends it as skipped
\* with reason no_chunks; such a workflow is never in error, has run neither
\* the embed nor the save step, and has written nothing to the store.
C12_EmptyResultsSkip ==
    /\ [][ \A h \in WorkflowIds :
             /\ (ck[h].load = NoCount /\ ck'[h].load = 0) =>
                   /\ wf'[h].status = "success"
                   /\ wf'[h].result = [status |-> "skipped", file |-> wf[h].path,
                                        reason |-> "no_content", chunks |-> NoCount]
                   /\ docs' = docs /\ chunks' = chunks
             /\ (ck[h].chunk = NoCount /\ ck'[h].chunk = 0) =>
                   /\ wf'[h].status = "success"
                   /\ wf'[h].result = [status |-> "skipped", file |-> wf[h].path,
                                        reason |-> "no_chunks", chunks |-> NoCount]
                   /\ docs' = docs /\ chunks' = chunks ]_vars
    /\ [](\A h \in WorkflowIds :
             (ck[h].load = 0 \/ ck[h].chunk = 0) =>
                 /\ wf[h].status = "success" /\ wf[h].exc = "none"
                 /\ ck[h].embed = "none" /\ ck[h].save = "none"
                 /\ tx[h] = IdleTx
                 /\ \A d \in docs : d.file_hash # h
                 /\ \A c \in chunks : c.chunk_id[1] # h)

\* One workflow ended on an empty load result and another on an empty chunk
\* list.
C12_Witness ==
    /\ \E h \in WorkflowIds : wf[h].result.reason = "no_content"
    /\ \E h \in WorkflowIds : wf[h].result.reason = "no_chunks"

\* C14: only the embed step is attempted again after a failure, and at most
\* max_attempts times in all: a step of a workflow that leaves it at the same
\* position is a failed embed attempt, fewer than max_attempts attempts have
\* failed while the workflow runs, an embed error leaves the workflow only
\* after max_attempts failed attempts, and an error at any other step ends
\* the workflow at once.
C14_OnlyEmbedRetried ==
    [][ \A h \in WorkflowIds :
          (wf[h].status = "running" /\ wf'[h] # wf[h]) =>
              /\ wf'[h].pc = wf[h].pc =>
                    /\ wf[h].pc = "embed"
                    /\ wf'[h].attempts = wf[h].attempts + 1
              /\ wf'[h].attempts < max_attempts
              /\ wf'[h].attempts # wf[h].attempts => wf[h].pc = "embed"
              /\ (wf'[h].status = "error" /\ wf[h].pc = "embed") =>
                    /\ wf[h].attempts = max_attempts - 1
                    /\ wf'[h].exc = "DBOSMaxStepRetriesExceeded"
              /\ (wf'[h].status = "error" /\ wf[h].pc # "embed") =>
                    wf[h].attempts = 0 ]_vars

\* One file failed after its embed attempts were used up, another failed at
\* its first chunking error.
C14_Witness ==
    /\ \E h \in WorkflowIds : wf[h].status = "error" /\ wf[h].exc = "DBOSMaxStepRetriesExceeded"
    /\ \E h \in WorkflowIds : wf[h].status = "error" /\ wf[h].exc = "ChunkingError"

\* C13: the id stored for a chunk is the id derived from the content hash of
\* its document and its ordinal, and the workflow and the ingestion script
\* derive the same id from the same hash and ordinal.
C13_DeterministicChunkIds ==
    /\ \A c \in chunks : \E d \in docs :
            /\ d.id = c.document_id
            /\ c.chunk_id = generate_chunk_id(d.file_hash, c.chunk_index)
            /\ c.chunk_id = script_generate_chunk_id(d.file_hash, c.chunk_index)
    /\ \A h \in Hashes : \A i \in 0..MaxChunks :
            generate_chunk_id(h, i) = script_generate_chunk_id(h, i)
    /\ \A s \in Sessions : \A c \in tx[s].creates :
            c.chunk_id = generate_chunk_id(tx[s].hash, c.index)

\* The store holds chunks written by the script and chunks written by a
\* workflow that was recovered after a crash, with ordinals above 0.
C13_Witness ==
    /\ saves >= 1
    /\ \E h \in WorkflowIds : /\ wf[h].recoveries >= 1
                              /\ ck[h].save = "saved"
                              /\ \E c \in chunks : c.chunk_id = generate_chunk_id(h, 1)
    /\ \E d \in docs : \E c \in chunks :
          /\ c.document_id = d.id
          /\ c.chunk_index >= 1
          /\ \A h \in WorkflowIds : wf[h].path # d.file_path

\* C15: a folder workflow that completed over a non-empty discovery holds one
\* result per discovered file, and its summary gives the number of discovered
\* files, the number of results with status success and the number with
\* status skipped, which together do not exceed the number of files.
C15_SummaryCounts ==
    \A r \in Runs :
        (run[r].pc = "complete" /\ Len(run[r].files) > 0) =>
            LET res == run[r].results
                sum == run[r].summary IN
            /\ Len(res) = Len(run[r].files)
            /\ \A i \in 1..Len(res) : res[i] = wf[run[r].files[i].file_hash].result
            /\ sum.status = "complete"
            /\ sum.files_found = Len(run[r].files)
            /\ sum.files_processed = Cardinality({ i \in 1..Len(res) : res[i].status = "success" })
            /\ sum.files_skipped = Cardinality({ i \in 1..Len(res) : res[i].status = "skipped" })
            /\ sum.files_processed + sum.files_skipped <= sum.files_found

\* A run over two files completed with one processed and one skipped.
C15_Witness ==
    \E r \in Runs : /\ run[r].pc = "complete"
                    /\ run[r].summary.files_found = 2
                    /\ run[r].summary.files_processed = 1
                    /\ run[r].summary.files_skipped = 1

FileSet(r) == { run[r].files[i] : i \in 1..Len(run[r].files) }

\* C16: the summary of a completed folder workflow is determined by the set
\* of discovered files and the outcomes of their workflows, whatever the
\* order of discovery and of completion: every child has produced its result
\* when the run completes, the counts are those of the children's outcomes,
\* and two completed runs over the same set of files report the same counts.
C16_SummaryOrderIndependent ==
    /\ \A r \in Runs :
          (run[r].pc = "complete" /\ Len(run[r].files) > 0) =>
              LET kids == [i \in 1..Len(run[r].files) |-> wf[run[r].files[i].file_hash]] IN
              /\ \A i \in 1..Len(run[r].files) : kids[i].status = "success"
              /\ run[r].summary.files_found = Cardinality(FileSet(r))
              /\ run[r].summary.files_processed =
                    Cardinality({ i \in 1..Len(run[r].files) : kids[i].result.status = "success" })
              /\ run[r].summary.files_skipped =
                    Cardinality({ i \in 1..Len(run[r].files) : kids[i].result.status = "skipped" })
    /\ \A r1 \in Runs : \A r2 \in Runs :
          (run[r1].pc = "complete" /\ run[r2].pc = "complete" /\ FileSet(r1) = FileSet(r2)) =>
              run[r1].summary = run[r2].summary

\* The folder workflow is waiting for its first child while the child it
\* enqueued second has already produced its result.
C16_Witness ==
    \E r \in Runs : /\ run[r].pc = "await"
                    /\ run[r].idx = 1
                    /\ Len(run[r].files) = 2
                    /\ wf[run[r].files[1].file_hash].status = "running"
                    /\ wf[run[r].files[2].file_hash].status = "success"
                    /\ run[r].files[1].file_hash # run[r].files[2].file_hash

\* C19: a folder workflow past its discovery has set files_discovered, and a
\* folder workflow that completed has set files_discovered, files_completed
\* and files_skipped, also when it discovered no file.
C19_ProgressEvents ==
    \A r \in Runs :
        /\ run[r].pc \in {"enqueue", "await", "complete", "failed"} =>
              run[r].events.files_discovered = Len(run[r].files)
        /\ run[r].pc = "complete" =>
              /\ run[r].events.files_completed # NoCount
              /\ run[r].events.files_skipped # NoCount

\* C17: never more than worker_concurrency per-file workflows are executing,
\* and every child waiting in the queue is eventually taken by a worker.
C17_BoundedConcurrency ==
    /\ [](Cardinality(Running) <= worker_concurrency)
    /\ \A h \in WorkflowIds : (wf[h].status = "enqueued") ~> (wf[h].status # "enqueued")

\* All worker slots are taken and a further child waits in the queue.
C17_Witness ==
    /\ Cardinality(Running) = worker_concurrency
    /\ \E h \in WorkflowIds : wf[h].status = "enqueued"

RecognizedKeys == {"source", "file_type"}

\* C20: a search whose filter carries a key outside the recognized set has
\* raised QueryPreprocessingError without opening a session, and the key is
\* not a field name of its query.
C20_FilterRejection ==
    (search.pc # "idle" /\ \E k \in DOMAIN search.filter : k \notin RecognizedKeys) =>
        /\ search.exc = "QueryPreprocessingError"
        /\ ~search.session
        /\ \A c \in search.clauses : c.field \in RecognizedKeys

\* ---------------------------------------------------------------- retrieval
\* C21: when the embedder returns a query vector whose length differs from the
\* configured dimension, retrieve raises EmbeddingError, and no similarity
\* search is built or executed for that call.
C21_DimensionGuard ==
    (rt.pc \notin {"idle", "embed"} /\ rt.length # dimension) =>
        /\ rt.pc = "raised"
        /\ rt.exc = "EmbeddingError"
        /\ search.pc = "idle"

\* C22: the similarity search called by retrieve is asked for exactly
\* top_k * 3 rows when rerank is true and exactly top_k rows when it is false.
C22_OverFetch ==
    rt.pc = "searching" =>
        /\ "top_k" \in search.params
        /\ rt.rerank => search.top_k = rt.top_k * 3
        /\ ~rt.rerank => search.top_k = rt.top_k

C22_Witness ==
    /\ rt.pc = "searching"
    /\ rt.rerank
    /\ rt.top_k = 1
    /\ search.pc = "returned"
    /\ search.top_k = 3
    /\ Len(search.rows) = 3

\* The smaller of two numbers.
Least(a, b) == IF a < b THEN a ELSE b

\* C23: retrieve never returns more than top_k results.  With re-ranking and
\* candidates, the response is the scored candidates, best first, cut to
\* top_k; without re-ranking, or without candidates, it is the first top_k
\* rows of the vector search in the order the search returned them.
C23_AtMostTopK ==
    rt.pc = "returned" =>
        /\ Len(rt.results) <= rt.top_k
        /\ Len(rt.results) = Least(rt.top_k, Len(rt.candidates))
        /\ (rt.rerank /\ rt.candidates # <<>>) =>
              /\ \A i \in 1..Len(rt.results) :
                    /\ rt.results[i].rerank_score # None
                    /\ \E j \in 1..Len(rt.candidates) :
                          rt.results[i].chunk_id = rt.candidates[j].chunk_id
              /\ \A i, j \in 1..Len(rt.results) :
                    i < j => rt.results[i].rerank_score[1] >= rt.results[j].rerank_score[1]
        /\ ~(rt.rerank /\ rt.candidates # <<>>) =>
              \A i \in 1..Len(rt.results) : rt.results[i] = rt.candidates[i]

C23_Witness ==
    /\ rt.pc = "returned"
    /\ rt.rerank
    /\ rt.top_k = 2
    /\ Len(rt.candidates) = 3
    /\ Len(rt.results) = 2
    /\ rt.results[1].chunk_id = rt.candidates[3].chunk_id

C23_WitnessNoRerank ==
    /\ rt.pc = "returned"
    /\ ~rt.rerank
    /\ rt.top_k = 1
    /\ Len(rt.results) = 1

\* C24: rerank_results returns min(top_k, n) candidates, each carrying the
\* score the cross-encoder gave it, in descending score order, and no
\* candidate left out has a higher score than one returned; negative scores
\* and the initial similarity order make no difference.
C24_RerankOrdering ==
    (rt.pc = "returned" /\ rt.rerank /\ rt.candidates # <<>>) =>
        LET n == Len(rt.candidates)
            m == Len(rt.results)
        IN  /\ m = Least(rt.top_k, n)
            /\ \E idx \in [1..m -> 1..n] :
                  /\ \A i, j \in 1..m : idx[i] = idx[j] => i = j
                  /\ \A i \in 1..m :
                        /\ rt.results[i].chunk_id = rt.candidates[idx[i]].chunk_id
                        /\ rt.results[i].similarity = rt.candidates[idx[i]].similarity
                        /\ rt.results[i].rerank_score = Some(rt.scores[idx[i]])
                  /\ \A i, j \in 1..m : i < j => rt.scores[idx[i]] >= rt.scores[idx[j]]
                  /\ \A i \in 1..m : \A k \in 1..n :
                        (\A j \in 1..m : idx[j] # k) => rt.scores[k] <= rt.scores[idx[i]]

\* The example: similarities 0.9, 0.5, 0.3 with scores 0.1, 0.2, 0.9 and
\* top_k = 2 give the third candidate, then the second.
C24_Witness ==
    /\ rt.pc = "returned"
    /\ rt.rerank
    /\ rt.top_k = 2
    /\ Len(rt.candidates) = 3
    /\ [i \in 1..3 |-> rt.candidates[i].similarity] = <<9, 5, 3>>
    /\ rt.scores = <<1, 2, 9>>
    /\ Len(rt.results) = 2
    /\ rt.results[1].chunk_id = rt.candidates[3].chunk_id
    /\ rt.results[2].chunk_id = rt.candidates[2].chunk_id
    /\ rt.results[1].rerank_score = Some(9)
    /\ rt.results[2].rerank_score = Some(2)

\* --------------------------------------------------------------- generation
LLMClasses == {"LLMError", "LLMRateLimitError", "LLMTimeoutError"}

\* C25: when retrieval returned an empty result list, generate_answer has
\* returned the fixed no-documents answer with no citations, the model was
\* not invoked, no context was formatted and no prompt was built.
C25_NoResultsShortCircuit ==
    (gen.retrieval # None /\ gen.retrieval[1].results = <<>>) =>
        /\ gen.pc = "returned"
        /\ gen.response # None
        /\ gen.response[1].answer.kind = "no_documents"
        /\ gen.response[1].citations = <<>>
        /\ gen.attempts = 0
        /\ ~gen.prompt
        /\ gen.wait = 0

C25_Witness ==
    /\ gen.pc = "returned"
    /\ gen.retrieval # None
    /\ gen.retrieval[1].results = <<>>
    /\ gen.response[1].answer.kind = "no_documents"

\* C26: the model is invoked at most 6 times for one request, a wait is only
\* scheduled while attempts remain, and the retry loop, once entered,
\* ends in a response of the model or in an error of an LLM class.
C26_BoundedInvocation ==
    /\ [](gen.attempts <= stop_after_attempt)
    /\ [](gen.pc = "sleeping" => gen.attempts < stop_after_attempt)
    /\ [](gen.pc = "llm_error" => gen.error.class \in LLMClasses)
    /\ (gen.pc = "invoke") ~> (gen.pc \in {"parse", "llm_error"})

C26_Witness ==
    /\ gen.pc = "llm_error"
    /\ gen.attempts = stop_after_attempt
    /\ gen.error.class = "LLMRateLimitError"

\* C27: an invocation failing with a rate-limit error (below the ceiling), a
\* timeout error or a generic provider error is attempted again while
\* attempts remain: the retry loop ends in an error before the attempt bound
\* only for a rate limit whose suggested wait exceeds the ceiling.
C27_TransientRetried ==
    (gen.pc = "llm_error" /\ gen.attempts < stop_after_attempt) =>
        /\ gen.error.branch = "rate_limit"
        /\ gen.error.retry_after # None
        /\ gen.error.retry_after[1] > max_allowed

\* C28: the wait before the next attempt is the exponential value, unless the
\* rate-limit error carries a suggested wait strictly longer than that value,
\* in which case it is the suggested wait plus one second.
C28_BackoffRule ==
    gen.pc = "sleeping" =>
        LET exp_wait == Greatest(exp_min, Smallest(2 ^ (gen.attempts - 1), exp_max))
            suggested == gen.error.retry_after
        IN  gen.wait = IF gen.error.class = "LLMRateLimitError" /\ suggested # None
                          /\ suggested[1] > exp_wait
                       THEN suggested[1] + 1
                       ELSE exp_wait

\* A rate-limit error whose suggested wait exceeds the ceiling.
CeilingExceeded(error) ==
    error.branch = "rate_limit" /\ error.retry_after # None /\ error.retry_after[1] > max_allowed

\* C29: a rate-limit error whose suggested wait exceeds 5 s ends the retry
\* loop: no wait is scheduled, the model is not invoked again for the
\* request, and the request is answered with the degraded response.
C29_BackoffCeiling ==
    /\ [](CeilingExceeded(gen.error) =>
            /\ gen.pc \in {"llm_error", "returned"}
            /\ gen.wait = 0
            /\ gen.pc = "returned" => gen.response[1].answer.kind = "degraded")
    /\ [][CeilingExceeded(gen.error) =>
            \/ gen'.pc = "returned" /\ gen'.attempts = gen.attempts
            \/ gen' = NoGenerate]_vars

C29_Witness ==
    /\ gen.pc = "returned"
    /\ gen.error.retry_after = Some(6)
    /\ gen.error.class = "LLMError"
    /\ gen.attempts = 1
    /\ gen.response[1].answer.kind = "degraded"

\* C30: when the model invocation ended in an error of an LLM class after
\* retrieval returned results, generate_answer does not raise: its next step
\* returns the degraded answer carrying the formatted retrieved context, with
\* the retrieval response as it was returned.
C30_GracefulDegradation ==
    /\ [](gen.pc = "raised" => gen.exc \notin LLMClasses)
    /\ [][gen.pc = "llm_error" =>
            /\ gen'.pc = "returned"
            /\ gen'.response # None
            /\ gen'.response[1].answer.kind = "degraded"
            /\ gen'.response[1].answer.context =
                  format_docs(gen.retrieval[1].results)
            /\ gen'.response[1].answer.context # <<>>
            /\ gen'.response[1].retrieval_context = gen.retrieval[1]
            /\ gen'.retrieval = gen.retrieval]_vars

C30_Witness ==
    /\ gen.pc = "returned"
    /\ gen.error.class = "LLMTimeoutError"
    /\ gen.attempts = stop_after_attempt
    /\ gen.response[1].answer.kind = "degraded"
    /\ Len(gen.response[1].answer.context) = 2

C32_NonLLMFailuresPropagate ==
    /\ [][(gen.pc = "retrieving" /\ rt.pc = "raised") =>
            /\ gen'.pc = "raised"
            /\ gen'.exc = rt.exc
            /\ gen'.exc \notin LLMClasses
            /\ gen'.response = None]_vars
    /\ [][gen.pc = "parse" =>
            \/ gen'.pc = "raised" /\ gen'.exc \notin LLMClasses /\ gen'.response = None
            \/ gen'.pc = "returned" /\ gen'.response[1].answer.kind = "model"]_vars

C32_Witness ==
    /\ gen.pc = "raised"
    /\ gen.exc = "StorageException"
    /\ gen.attempts = 0
    /\ gen.response = None

\* ----------------------------------------------------------- text functions
\* The names cited in an answer text: what stands between an opening
\* "[Source: " and a closing "]" with no opening, closing or line break inside.
CitedNames(answer) ==
    { SubSeq(answer, i + 1, j - 1) :
        <<i, j>> \in { p \in (1..Len(answer)) \X (1..Len(answer)) :
                         /\ p[1] < p[2]
                         /\ answer[p[1]] = Open
                         /\ answer[p[2]] = Close
                         /\ \A k \in (p[1] + 1)..(p[2] - 1) : answer[k] \notin {Open, Close, NL} } }

\* C33: _extract_citations returns exactly the distinct names cited in the
\* answer text, each once and in sorted order, the empty list when there is
\* none, and never two citations merged into one name.
C33_CitationExtraction ==
    text.pc = "extracted" =>
        LET citations == text.output
        IN  /\ \A i, j \in 1..Len(citations) : i < j => StringLess(citations[i], citations[j])
            /\ { citations[i] : i \in 1..Len(citations) } = CitedNames(text.input)

\* C34: normalize_text returns a text for every input, the empty text for the
\* empty one, and returns its own output unchanged.
C34_NormalizeIdempotent ==
    /\ text.pc \in {"normalized", "renormalized"} =>
          /\ text.output \in Texts
          /\ text.input = <<>> => text.output = <<>>
    /\ text.pc = "renormalized" => text.again = text.output

C34_Witness ==
    /\ text.pc = "renormalized"
    /\ text.input = <<NUL, "a", NL, NL, NL>>
    /\ text.output = <<"a">>
    /\ text.again = <<"a">>

\* ------------------------------------------------ distinct paths in the store
\* The path of the document that owns a stored chunk.
OwnerPath(c) == (CHOOSE d \in docs : d.id = c.document_id).file_path

\* C35: saves for distinct file paths never conflict: a save fails at its
\* commit only over a stored chunk of its own path, never over a chunk that a
\* document of another path owns, whatever the content of the two files.
C35_DistinctPathsNeverConflict ==
    [][\A s \in Sessions :
          (tx[s].phase = "commit" /\ tx'[s].phase = "raised") =>
              \A e \in chunks :
                  (\E c \in tx[s].creates : c.chunk_id = e.chunk_id) => OwnerPath(e) = tx[s].path]_vars

\* -------------------------------------------------------- negative similarity
\* C36: a search whose query fetched a chunk of negative similarity returns
\* that chunk in its result list instead of failing.
C36_NegativeSimilarityAccepted ==
    (search.pc \in {"returned", "raised"}
        /\ \E i \in 1..Len(search.fetched) : search.fetched[i].similarity < 0) =>
            /\ search.pc = "returned"
            /\ search.rows = search.fetched

\* ------------------------------------------------------------------ reranker
\* C37: the re-ranker model is constructed at most once in a process: every
\* call of get_reranker_model, from warmup_models or from a request and in
\* any order of the two, finds or leaves the one instance first constructed.
C37_RerankerConstructedOnce ==
    /\ reranker.constructed <= 1
    /\ reranker.model = None <=> reranker.constructed = 0
    /\ reranker.model # None => reranker.model = Some(1)

C37_Witness ==
    /\ reranker.warmed
    /\ reranker.constructed = 1
    /\ rt.pc = "returned"
    /\ rt.rerank
    /\ rt.scores # <<>>

\* ------------------------------------------------- processed means persisted
\* C38: when a folder workflow completes, every discovered file whose result
\* it counts with status success has a document at its path in the store,
\* tracking the discovered hash and owning the number of chunks the result
\* reports.
C38_ProcessedIsPersisted ==
    [][\A r \in Runs :
          (run[r].pc # "complete" /\ run'[r].pc = "complete") =>
              \A i \in 1..Len(run'[r].results) :
                  run'[r].results[i].status = "success" =>
                      \E d \in docs' :
                          /\ d.file_path = run'[r].files[i].file_path
                          /\ d.file_hash = run'[r].files[i].file_hash
                          /\ Cardinality({ c \in chunks' : c.document_id = d.id })
                                = run'[r].results[i].chunks]_vars

\* ------------------------------------------------- chunk/document consistency
\* C39: in every committed state of the store that the ingestion workflow
\* reaches, each chunk is owned by exactly one existing document, and the
\* chunks a document owns carry the ids derived from the hash the document
\* tracks, with the ordinals 0..n-1, each once and equal to chunk_index: no
\* chunk of an earlier content version is left beside the current ones.
C39_ChunkDocumentConsistency ==
    /\ \A c \in chunks : Cardinality({ d \in docs : d.id = c.document_id }) = 1
    /\ \A d \in docs :
          LET owned == { c \in chunks : c.document_id = d.id }
              n == Cardinality(owned)
          IN  /\ \A c \in owned : c.chunk_id = <<d.file_hash, c.chunk_index>>
              /\ { c.chunk_index : c \in owned } = 0..(n - 1)

\* ------------------------------------------------------ no LLM error escapes
\* C40: generate_answer never raises an error of an LLM class: an exception
\* of the model invocation is held as exactly one of the three LLM classes,
\* it is only met after retrieval returned results, it either leads to a
\* further attempt or ends the invocation, and an invocation ended by it is
\* answered, not raised.
C40_NoLLMErrorEscapes ==
    /\ [](gen.error # NoError =>
            /\ gen.error.class \in LLMClasses
            /\ gen.pc \in {"sleeping", "llm_error", "returned"}
            /\ gen.retrieval # None
            /\ gen.retrieval[1].results # <<>>)
    /\ [](gen.pc = "raised" => gen.exc \notin LLMClasses /\ gen.error = NoError)
    /\ [][gen.error # NoError /\ gen.pc # "returned" =>
            /\ gen'.pc \in {"invoke", "returned"}
            /\ gen'.pc = "returned" => gen'.response # None /\ gen'.exc = "none"]_vars

C40_Witness ==
    /\ gen.pc = "returned"
    /\ gen.error.class = "LLMRateLimitError"
    /\ gen.error.retry_after = Some(5)
    /\ gen.attempts = stop_after_attempt
    /\ gen.response # None
    /\ gen.exc = "none"

====
